---- MODULE Spec2Model ----
(***************************************************************************)
(* Model of MiniMax-MCP-JS: configuration resolution (ConfigManager), the  *)
(* legacy single-file server (index.ts), the video task poller (VideoAPI)  *)
(* the tool handlers of the stdio, REST and SSE servers, the SSE session   *)
(* registry, VideoAPI.queryVideoGeneration, the entry point                *)
(* startMiniMaxMCP, playAudio and VoiceCloneAPI.cloneVoice.                *)
(*                                                                         *)
(* JavaScript values are modelled as strings; numbers are written as their *)
(* decimal strings, `undefined` is the string Undef, and an object is a    *)
(* function whose DOMAIN is the set of its own keys.                       *)
(***************************************************************************)
EXTENDS Integers, Sequences, FiniteSets, TLC

VARIABLES
    env,        \* process.env: environment variable name -> raw string
    argv,       \* process.argv.slice(2): sequence of tokens
    cfgFile,    \* example.minimax-config.json: [status, content]
    resolved,   \* outcome of the last ConfigManager.getConfig call
    params,     \* index.ts: parameters read by getParamValue, name -> string
    indexPhase, \* index.ts: "module" once loaded, "serving" or "failed" after runServer
    indexConfig,\* index.ts: the module-level `config`
    inflight,   \* index.ts: tool invocations begun and not yet returned
    served,     \* index.ts: the last tool invocation that returned
    videoRequest,     \* VideoAPI.generateVideo: its request and the API's resource mode
    videoPc,          \* generateVideo: the await it is at
    videoAttempt,     \* generateVideo: `attempt` of the polling loop
    videoTaskId,      \* generateVideo: `taskId`
    videoFileId,      \* generateVideo: `fileId`
    videoDownloadUrl, \* generateVideo: `downloadUrl`
    videoCalls,       \* upstream calls issued: submit, query, retrieve, download
    videoSleeps,      \* number of polling sleeps and the seconds slept in all
    videoNonTerminal, \* number of status queries answered with a non-terminal status
    videoLast,        \* the last status response
    videoResult,      \* what generateVideo returned or threw
    videoResponse,    \* generate_video tool: the text of its response, in pieces
    toolCall,         \* a tool invocation: its binding, tool and arguments
    toolPc,           \* the invocation: "attempt", "backoff" or "done"
    toolAttempt,      \* `attempt` of the retrying handler
    toolInitialized,  \* BaseService.initialized of the MediaService in use
    toolWaits,        \* the backoff delays waited so far, in milliseconds
    toolHistory,      \* per attempt: what the retried operation did
    toolResponse,     \* what the invocation handed to the transport
    toolDrawn,        \* per attempt: what the MiniMax API was set to answer
    sseNow,           \* MCPSSEServer: Date.now() in ms since the listener started
    sseConnections,   \* this.connections in insertion order: sessionId, lastActivityTime
    sseHeartbeats,    \* the sessions whose heartbeatInterval is running
    sseRequests,      \* the sessions whose GET /sse request has not fired 'close'
    sseNextId,        \* the next session id the transport draws
    sseMonitor,       \* connectionMonitorInterval: running, and when it last fired
    ssePhase,         \* "running", or the position of the signal handler
    sseShutdown,      \* the signal handler: signal, sessionIds, those still to close
    sseNotified,      \* the sessions on which the write of a close event was tried
    sseMessages,      \* per session: when a posted message was last routed to it
    sseLast,          \* the last operation of the server and its answer
    ssePending,       \* the sessions with a tool invocation in progress
    mcpPhase,         \* MCPServer: "constructed", "started" or "failed"
    mcpConfig,        \* MCPServer.config
    mcpApi,           \* MCPServer.api, which the API classes of the server share
    mcpLast,          \* the last tool invocation: the credential and host in force, what it did
    qvMode,           \* queryVideoGeneration: this.api.getResourceMode()
    qvCount,          \* the queryVideoGeneration calls begun so far
    qvTaskId,         \* queryVideoGeneration: `taskId` of the call
    qvPc,             \* queryVideoGeneration: the await it is at
    qvLast,           \* the response of its status query
    qvFile,           \* the response of its file retrieval
    qvDownload,       \* its download: "none", "ok" or "failed"
    qvCalls,          \* upstream calls issued by the call: submit, query, retrieve, download
    qvResult,         \* what the call returned or threw
    runEntry,         \* how the process was started: the CLI entry, or a caller of startMiniMaxMCP
    runPhase,         \* "boot", then "serving" or "exited"
    runClass,         \* the server class startMiniMaxMCP constructed
    runStarted,       \* `config` of startMiniMaxMCP
    runConfig,        \* this.config of the server
    runCount,         \* the tool invocations served so far
    runLast,           \* the last tool invocation: its request, configuration and output path
    playRequest,      \* the arguments of the play_audio invocation
    playPlatform,     \* os.platform()
    playPc,           \* where playAudio is: "start", "loaded", "playing", "closed" or "done"
    playTemp,         \* the temporary file: "none", "present" or "deleted"
    playPromise,      \* the promise playAudio returns
    playEvents,       \* the events the player process has emitted
    playResults,      \* the results the tool callback has returned
    playProcess,       \* the server process: "running" or "crashed"
    cloneRequest,     \* the arguments of the voice_clone invocation
    cloneMode,        \* cloneVoice: this.api.getResourceMode()
    clonePc,          \* cloneVoice: the step it is at
    clonePayload,     \* the payload of the clone request
    cloneDemo,        \* demo_audio of the clone response
    cloneDownload,    \* the download and write of the demo audio: "none", "ok" or "failed"
    cloneResult       \* what the tool callback returned

cfgVars == <<env, argv, cfgFile, resolved>>

indexVars == <<params, indexPhase, indexConfig, inflight, served>>

videoVars == <<videoRequest, videoPc, videoAttempt, videoTaskId, videoFileId,
               videoDownloadUrl, videoCalls, videoSleeps, videoNonTerminal, videoLast,
               videoResult, videoResponse>>

toolVars == <<toolCall, toolPc, toolAttempt, toolInitialized, toolWaits, toolHistory,
              toolResponse, toolDrawn>>

sseVars == <<sseNow, sseConnections, sseHeartbeats, sseRequests, sseNextId, sseMonitor,
             ssePhase, sseShutdown, sseNotified, sseMessages, sseLast, ssePending>>

mcpVars == <<mcpPhase, mcpConfig, mcpApi, mcpLast>>

queryVars == <<qvMode, qvCount, qvTaskId, qvPc, qvLast, qvFile, qvDownload, qvCalls, qvResult>>

runVars == <<runEntry, runPhase, runClass, runStarted, runConfig, runCount, runLast>>

playVars == <<playRequest, playPlatform, playPc, playTemp, playPromise, playEvents, playResults, playProcess>>

cloneVars == <<cloneRequest, cloneMode, clonePc, clonePayload, cloneDemo, cloneDownload, cloneResult>>

vars == <<cfgVars, indexVars, videoVars, toolVars, sseVars, mcpVars, queryVars, runVars, playVars, cloneVars>>

\* What the actions of one component leave unchanged
configFrame == <<indexVars, videoVars, toolVars, sseVars, mcpVars, queryVars, runVars, playVars, cloneVars>>
indexFrame == <<cfgVars, videoVars, toolVars, sseVars, mcpVars, queryVars, runVars, playVars, cloneVars>>
videoFrame == <<cfgVars, indexVars, toolVars, sseVars, mcpVars, queryVars, runVars, playVars, cloneVars>>
toolFrame == <<cfgVars, indexVars, videoVars, sseVars, mcpVars, queryVars, runVars, playVars, cloneVars>>
sseFrame == <<cfgVars, indexVars, videoVars, toolVars, mcpVars, queryVars, runVars, playVars, cloneVars>>
mcpFrame == <<cfgVars, indexVars, videoVars, toolVars, sseVars, queryVars, runVars, playVars, cloneVars>>
queryFrame == <<cfgVars, indexVars, videoVars, toolVars, sseVars, mcpVars, runVars, playVars, cloneVars>>
startFrame == <<cfgVars, indexVars, videoVars, toolVars, sseVars, mcpVars, queryVars, playVars, cloneVars>>
playFrame == <<cfgVars, indexVars, videoVars, toolVars, sseVars, mcpVars, queryVars, runVars, cloneVars>>
cloneFrame == <<cfgVars, indexVars, videoVars, toolVars, sseVars, mcpVars, queryVars, runVars, playVars>>

(***************************************************************************)
(* JavaScript objects and values                                           *)
(***************************************************************************)
Undef == "undefined"

EmptyObj == [k \in {} |-> Undef]

Has(o, k) == k \in DOMAIN o

Get(o, k) == IF k \in DOMAIN o THEN o[k] ELSE Undef

\* o[k] = v
Put(o, k, v) == [x \in DOMAIN o \cup {k} |-> IF x = k THEN v ELSE o[x]]

\* JavaScript truthiness of a string-or-undefined value
TruthyStr(v) == v # Undef /\ v # ""

\* JavaScript truthiness of a number-or-undefined value
TruthyNum(n) == n # Undef /\ n # "0" /\ n # "NaN"

\* Object.assign(target, source): own keys of source overwrite, shallow
ObjectAssign(target, source) ==
    [k \in DOMAIN target \cup DOMAIN source |->
        IF k \in DOMAIN source THEN source[k] ELSE target[k]]

\* parseInt(s, 10) on the port strings the model draws: leading digits are
\* read, trailing text is dropped
ParseInt(s) ==
    CASE s = "3002" -> "3002"
      [] s = "3003" -> "3003"
      [] s = "3004x" -> "3004"
      [] s = "3005" -> "3005"
      [] OTHER -> "NaN"

\* a || b on strings
OrStr(a, b) == IF TruthyStr(a) THEN a ELSE b

(***************************************************************************)
(* Components that a specification does not run stay as they are before    *)
(* anything is loaded.                                                     *)
(***************************************************************************)
NoCall == [tool |-> "none"]

IndexIdle ==
    /\ params = EmptyObj
    /\ indexPhase = "unloaded"
    /\ indexConfig = EmptyObj
    /\ inflight = [s \in {} |-> NoCall]
    /\ served = NoCall

NoCalls == [submit |-> 0, query |-> 0, retrieve |-> 0, download |-> 0]

NoResult == [kind |-> "none"]

NoStatus == [status |-> Undef, file_id |-> Undef]

VideoIdle ==
    /\ videoRequest = EmptyObj
    /\ videoPc = "idle"
    /\ videoAttempt = 0
    /\ videoTaskId = Undef
    /\ videoFileId = Undef
    /\ videoDownloadUrl = Undef
    /\ videoCalls = NoCalls
    /\ videoSleeps = [count |-> 0, seconds |-> 0]
    /\ videoNonTerminal = 0
    /\ videoLast = NoStatus
    /\ videoResult = NoResult
    /\ videoResponse = <<>>

\* An error: its message, the prefixes wrapError put before it, outermost
\* first, and the attempt in which it was thrown
Error(message, at) == [message |-> message, wrapped |-> <<>>, at |-> at]

NoError == Error(Undef, 0)

NoResponse == [kind |-> "none", class |-> Undef, at |-> 0, error |-> NoError]

ToolIdle ==
    /\ toolCall = EmptyObj
    /\ toolPc = "idle"
    /\ toolAttempt = 0
    /\ toolInitialized = FALSE
    /\ toolWaits = <<>>
    /\ toolHistory = <<>>
    /\ toolResponse = NoResponse
    /\ toolDrawn = <<>>

\* No operation of the SSE server yet
NoOperation == [op |-> "none", session |-> 0, query |-> 0, by |-> 0,
                answer |-> Undef, threw |-> FALSE, closed |-> {}]

NoShutdown == [signal |-> Undef, sessionIds |-> <<>>, todo |-> <<>>]

SseIdle ==
    /\ sseNow = 0
    /\ sseConnections = <<>>
    /\ sseHeartbeats = {}
    /\ sseRequests = {}
    /\ sseNextId = 0
    /\ sseMonitor = [running |-> FALSE, fired |-> 0]
    /\ ssePhase = "idle"
    /\ sseShutdown = NoShutdown
    /\ sseNotified = {}
    /\ sseMessages = <<>>
    /\ sseLast = NoOperation
    /\ ssePending = {}

\* No tool invoked yet
NoInvocation == [tool |-> "none", outcome |-> "none", apiKey |-> Undef, apiHost |-> Undef]

McpIdle ==
    /\ mcpPhase = "idle"
    /\ mcpConfig = EmptyObj
    /\ mcpApi = EmptyObj
    /\ mcpLast = NoInvocation

\* No response of the file retrieval yet
NoFile == [thrown |-> Undef, download_url |-> Undef]

QueryIdle ==
    /\ qvMode = Undef
    /\ qvCount = 0
    /\ qvTaskId = Undef
    /\ qvPc = "idle"
    /\ qvLast = [thrown |-> Undef, status |-> Undef, file_id |-> Undef]
    /\ qvFile = NoFile
    /\ qvDownload = "none"
    /\ qvCalls = NoCalls
    /\ qvResult = NoResult

\* No tool invocation served yet
NoServe == [request |-> [hasAuth |-> FALSE, auth |-> EmptyObj], config |-> EmptyObj,
            serverOf |-> "none", output |-> [threw |-> Undef, path |-> <<>>]]

StartIdle ==
    /\ runEntry = [kind |-> "none", customConfig |-> EmptyObj]
    /\ runPhase = "idle"
    /\ runClass = "none"
    /\ runStarted = EmptyObj
    /\ runConfig = EmptyObj
    /\ runCount = 0
    /\ runLast = NoServe

\* playAudio has not made its promise yet
NoPromise == [state |-> "none", value |-> Undef]

PlayIdle ==
    /\ playRequest = [inputFilePath |-> Undef, isUrl |-> FALSE]
    /\ playPlatform = "none"
    /\ playPc = "idle"
    /\ playTemp = "none"
    /\ playPromise = NoPromise
    /\ playEvents = <<>>
    /\ playResults = <<>>
    /\ playProcess = "idle"

\* voice_clone has returned nothing yet
NoCloneResult == [class |-> "none", text |-> Undef, demo |-> Undef]

CloneIdle ==
    /\ cloneRequest = [audioFile |-> Undef, voiceId |-> Undef, isUrl |-> FALSE, text |-> Undef]
    /\ cloneMode = Undef
    /\ clonePc = "idle"
    /\ clonePayload = EmptyObj
    /\ cloneDemo = Undef
    /\ cloneDownload = "none"
    /\ cloneResult = NoCloneResult

ConfigIdle ==
    /\ env = EmptyObj
    /\ argv = <<>>
    /\ cfgFile = [status |-> "absent", content |-> EmptyObj]
    /\ resolved = [done |-> FALSE, request |-> [hasAuth |-> FALSE, auth |-> EmptyObj],
                   threw |-> FALSE, config |-> EmptyObj]

(***************************************************************************)
(* Constants of const/index.js used by the configuration code              *)
(***************************************************************************)
DEFAULT_API_HOST == "https://api.minimaxi.chat"
DEFAULT_SERVER_PORT == "DEFAULT_SERVER_PORT"
DEFAULT_SERVER_ENDPOINT == "DEFAULT_SERVER_ENDPOINT"
RESOURCE_MODE_URL == "url"
TRANSPORT_MODE_STDIO == "stdio"
TRANSPORT_MODE_REST == "rest"
TRANSPORT_MODE_SSE == "sse"
ENV_MINIMAX_API_KEY == "MINIMAX_API_KEY"
ENV_MINIMAX_API_HOST == "MINIMAX_API_HOST"
ENV_MINIMAX_MCP_BASE_PATH == "MINIMAX_MCP_BASE_PATH"
ENV_RESOURCE_MODE == "MINIMAX_RESOURCE_MODE"
ENV_SERVER_PORT == "ENV_SERVER_PORT"
ENV_SERVER_ENDPOINT == "ENV_SERVER_ENDPOINT"
ENV_TRANSPORT_MODE == "ENV_TRANSPORT_MODE"

(***************************************************************************)
(* ConfigManager                                                           *)
(***************************************************************************)
isValidTransportMode(mode) == mode \in {"stdio", "rest", "sse"}

\* One token of process.argv: dashed is args[i].startsWith('--'), text is
\* the token without that prefix
RECURSIVE parseCliArgsFrom(_, _, _)
parseCliArgsFrom(args, i, parsedArgs) ==
    IF i > Len(args) THEN parsedArgs
    ELSE IF args[i].dashed
         THEN IF i + 1 <= Len(args) /\ ~args[i + 1].dashed
              THEN parseCliArgsFrom(args, i + 2,
                                    Put(parsedArgs, args[i].text, args[i + 1].text))
              ELSE parseCliArgsFrom(args, i + 1,
                                    Put(parsedArgs, args[i].text, "true"))
         ELSE parseCliArgsFrom(args, i + 1, parsedArgs)

parseCliArgs(args) == parseCliArgsFrom(args, 1, EmptyObj)

\* name.replace(/-([a-z])/g, upper) for the names applyCliArgs asks for
camelCaseOf(name) ==
    CASE name = "api-key" -> "apiKey"
      [] name = "api-host" -> "apiHost"
      [] name = "base-path" -> "basePath"
      [] name = "resource-mode" -> "resourceMode"
      [] OTHER -> name

\* name.replace(/([A-Z])/g, '-$1').toLowerCase(): the names asked for hold
\* no capital, so they are unchanged
kebabCaseOf(name) == name

findCliArg(args, name) ==
    LET parsed == parseCliArgs(args)
    IN  IF TruthyStr(Get(parsed, name)) THEN parsed[name]
        ELSE IF TruthyStr(Get(parsed, kebabCaseOf(name))) THEN parsed[kebabCaseOf(name)]
        ELSE Get(parsed, camelCaseOf(name))

\* if (v) config[key] = v
AssignIfTruthy(config, key, v) == IF TruthyStr(v) THEN Put(config, key, v) ELSE config

\* if (v) config.server[key] = v, config.server being an object
AssignServerIfTruthy(config, key, truthy, v) ==
    IF truthy THEN Put(config, "server", Put(config.server, key, v)) ELSE config

\* if (config.server): an object when present, undefined when absent
HasServer(config) == Has(config, "server")

applyCliArgsServer(config, args) ==
    IF HasServer(config)
    THEN LET port == findCliArg(args, "port")
             endpoint == findCliArg(args, "endpoint")
             mode == findCliArg(args, "mode")
             c1 == AssignServerIfTruthy(config, "port", TruthyStr(port), ParseInt(port))
             c2 == AssignServerIfTruthy(c1, "endpoint", TruthyStr(endpoint), endpoint)
         IN  AssignServerIfTruthy(c2, "mode",
                 TruthyStr(mode) /\ isValidTransportMode(mode), mode)
    ELSE config

applyCliArgs(config, args) ==
    LET c1 == AssignIfTruthy(config, "apiKey", findCliArg(args, "api-key"))
        c2 == AssignIfTruthy(c1, "apiHost", findCliArg(args, "api-host"))
        c3 == AssignIfTruthy(c2, "basePath", findCliArg(args, "base-path"))
        c4 == AssignIfTruthy(c3, "resourceMode", findCliArg(args, "resource-mode"))
    IN  applyCliArgsServer(c4, args)

applyEnvVarsServer(config, e) ==
    IF HasServer(config)
    THEN LET port == Get(e, ENV_SERVER_PORT)
             endpoint == Get(e, ENV_SERVER_ENDPOINT)
             mode == Get(e, ENV_TRANSPORT_MODE)
             c1 == AssignServerIfTruthy(config, "port", TruthyStr(port), ParseInt(port))
             c2 == AssignServerIfTruthy(c1, "endpoint", TruthyStr(endpoint), endpoint)
         IN  AssignServerIfTruthy(c2, "mode",
                 TruthyStr(mode) /\ isValidTransportMode(mode), mode)
    ELSE config

applyEnvVars(config, e) ==
    LET c1 == AssignIfTruthy(config, "apiKey", Get(e, ENV_MINIMAX_API_KEY))
        c2 == AssignIfTruthy(c1, "apiHost", Get(e, ENV_MINIMAX_API_HOST))
        c3 == AssignIfTruthy(c2, "basePath", Get(e, ENV_MINIMAX_MCP_BASE_PATH))
        c4 == AssignIfTruthy(c3, "resourceMode", Get(e, ENV_RESOURCE_MODE))
    IN  applyEnvVarsServer(c4, e)

mergeConfigServer(target, source) ==
    IF Has(source, "server") /\ HasServer(target)
    THEN LET s == source.server
             c1 == AssignServerIfTruthy(target, "port", TruthyNum(Get(s, "port")), Get(s, "port"))
             c2 == AssignServerIfTruthy(c1, "endpoint", TruthyStr(Get(s, "endpoint")), Get(s, "endpoint"))
         IN  AssignServerIfTruthy(c2, "mode",
                 TruthyStr(Get(s, "mode")) /\ isValidTransportMode(Get(s, "mode")),
                 Get(s, "mode"))
    ELSE target

mergeConfig(target, source) ==
    LET c1 == AssignIfTruthy(target, "apiKey", Get(source, "apiKey"))
        c2 == AssignIfTruthy(c1, "apiHost", Get(source, "apiHost"))
        c3 == AssignIfTruthy(c2, "basePath", Get(source, "basePath"))
        c4 == AssignIfTruthy(c3, "resourceMode", Get(source, "resourceMode"))
    IN  mergeConfigServer(c4, source)

\* fs.existsSync(file)
existsSync(file) == file.status # "absent"

\* JSON.parse(fs.readFileSync(file)): a SyntaxError for an empty or a
\* malformed text, the parsed object otherwise
JSONparse(file) ==
    IF file.status = "valid"
    THEN [ok |-> TRUE, value |-> file.content]
    ELSE [ok |-> FALSE, value |-> EmptyObj]

\* applyConfigFile without its try/catch: a parse error escapes
applyConfigFileUncaught(config, file) ==
    IF existsSync(file) /\ JSONparse(file).ok
    THEN [threw |-> FALSE, config |-> mergeConfig(config, JSONparse(file).value)]
    ELSE [threw |-> existsSync(file), config |-> config]

\* The two names of configFiles denote the same file of the working
\* directory: the first that exists and parses is merged, an exception is
\* caught and the next name is tried.
applyConfigFile(config, file) ==
    IF existsSync(file) /\ JSONparse(file).ok
    THEN [threw |-> FALSE, config |-> mergeConfig(config, JSONparse(file).value)]
    ELSE [threw |-> FALSE, config |-> config]

\* The configuration object getConfig starts from
BaseConfig(e) ==
    [apiKey |-> "",
     apiHost |-> DEFAULT_API_HOST,
     basePath |-> Get(e, ENV_MINIMAX_MCP_BASE_PATH),
     resourceMode |-> RESOURCE_MODE_URL,
     server |-> [port |-> DEFAULT_SERVER_PORT,
                 endpoint |-> DEFAULT_SERVER_ENDPOINT,
                 mode |-> TRANSPORT_MODE_STDIO]]

\* getConfig up to and including applyCliArgs
LowerLayers(defaultConfig, file, e, args) ==
    LET c0 == ObjectAssign(BaseConfig(e), defaultConfig)
        f == applyConfigFile(c0, file)
    IN  [threw |-> f.threw,
         config |-> applyCliArgs(applyEnvVars(f.config, e), args)]

getConfigWith(requestConfig, defaultConfig, file, e, args) ==
    LET low == LowerLayers(defaultConfig, file, e, args)
    IN  [threw |-> low.threw,
         config |-> ObjectAssign(low.config, requestConfig)]

getConfig(requestConfig, defaultConfig) ==
    getConfigWith(requestConfig, defaultConfig, cfgFile, env, argv)

\* One of the two spellings of a meta.auth key: the camelCase one is read
\* second and so wins
AuthScalar(config, metaAuth, key, under, camel) ==
    AssignIfTruthy(AssignIfTruthy(config, key, Get(metaAuth, under)),
                   key, Get(metaAuth, camel))

extractServer(metaAuth) ==
    LET s0 == EmptyObj
        s1 == IF TruthyStr(Get(metaAuth, "server_port"))
              THEN Put(s0, "port", ParseInt(metaAuth["server_port"])) ELSE s0
        s2 == IF TruthyStr(Get(metaAuth, "server_endpoint"))
              THEN Put(s1, "endpoint", metaAuth["server_endpoint"]) ELSE s1
        s3 == IF TruthyStr(Get(metaAuth, "server_mode"))
                 /\ isValidTransportMode(metaAuth["server_mode"])
              THEN Put(s2, "mode", metaAuth["server_mode"]) ELSE s2
        s4 == IF TruthyStr(Get(metaAuth, "serverPort"))
              THEN Put(s3, "port", ParseInt(metaAuth["serverPort"])) ELSE s3
        s5 == IF TruthyStr(Get(metaAuth, "serverEndpoint"))
              THEN Put(s4, "endpoint", metaAuth["serverEndpoint"]) ELSE s4
    IN  IF TruthyStr(Get(metaAuth, "serverMode"))
           /\ isValidTransportMode(metaAuth["serverMode"])
        THEN Put(s5, "mode", metaAuth["serverMode"]) ELSE s5

\* hasServerConfig left true: the server object is always added
hasServerConfigAlways(metaAuth) == TRUE

\* hasServerConfig: set exactly when a key was written to server
hasServerConfig(metaAuth) == DOMAIN extractServer(metaAuth) # {}

\* A request is [hasAuth, auth]; the result is [undef, config], undef
\* standing for the function returning undefined
extractConfigFromMetaAuth(request) ==
    IF ~request.hasAuth
    THEN [undef |-> TRUE, config |-> EmptyObj]
    ELSE LET a == request.auth
             c1 == AuthScalar(EmptyObj, a, "apiKey", "api_key", "apiKey")
             c2 == AuthScalar(c1, a, "apiHost", "api_host", "apiHost")
             c3 == AuthScalar(c2, a, "basePath", "base_path", "basePath")
             c4 == AuthScalar(c3, a, "resourceMode", "resource_mode", "resourceMode")
             c5 == IF hasServerConfig(a) THEN Put(c4, "server", extractServer(a)) ELSE c4
         IN  [undef |-> DOMAIN c5 = {}, config |-> c5]

\* MCPRestServer.extractRequestConfig: {} unless meta.auth yields a config
extractRequestConfig(request) ==
    LET m == extractConfigFromMetaAuth(request)
    IN  IF m.undef THEN EmptyObj ELSE ObjectAssign(EmptyObj, m.config)

(***************************************************************************)
(* Inputs of the configuration code: the layers a process can be started   *)
(* with and the meta.auth objects a request can carry.  Every layer uses   *)
(* values of its own, so the layer a resolved value came from can be read  *)
(* off the value.                                                          *)
(***************************************************************************)
ScalarFields == {"apiKey", "apiHost", "basePath", "resourceMode"}
ServerFields == {"port", "endpoint", "mode"}
Fields == ScalarFields \cup ServerFields

FieldOrder == <<"apiKey", "apiHost", "basePath", "resourceMode", "port", "endpoint", "mode">>

\* The sets of fields one layer defines
FieldSets ==
    {{}} \cup {{f} : f \in Fields} \cup {ScalarFields, ServerFields, Fields}

FileValue(f) ==
    CASE f = "apiKey" -> "file-key"
      [] f = "apiHost" -> "https://file.host"
      [] f = "basePath" -> "/file/base"
      [] f = "resourceMode" -> "local"
      [] f = "port" -> "3001"
      [] f = "endpoint" -> "/file-endpoint"
      [] f = "mode" -> "rest"

EnvName(f) ==
    CASE f = "apiKey" -> ENV_MINIMAX_API_KEY
      [] f = "apiHost" -> ENV_MINIMAX_API_HOST
      [] f = "basePath" -> ENV_MINIMAX_MCP_BASE_PATH
      [] f = "resourceMode" -> ENV_RESOURCE_MODE
      [] f = "port" -> ENV_SERVER_PORT
      [] f = "endpoint" -> ENV_SERVER_ENDPOINT
      [] f = "mode" -> ENV_TRANSPORT_MODE

EnvRaw(f) ==
    CASE f = "apiKey" -> "env-key"
      [] f = "apiHost" -> "https://env.host"
      [] f = "basePath" -> "/env/base"
      [] f = "resourceMode" -> "url"
      [] f = "port" -> "3002"
      [] f = "endpoint" -> "/env-endpoint"
      [] f = "mode" -> "sse"

CliName(f) ==
    CASE f = "apiKey" -> "api-key"
      [] f = "apiHost" -> "api-host"
      [] f = "basePath" -> "base-path"
      [] f = "resourceMode" -> "resource-mode"
      [] f = "port" -> "port"
      [] f = "endpoint" -> "endpoint"
      [] f = "mode" -> "mode"

CliRaw(f) ==
    CASE f = "apiKey" -> "cli-key"
      [] f = "apiHost" -> "https://cli.host"
      [] f = "basePath" -> "/cli/base"
      [] f = "resourceMode" -> "local"
      [] f = "port" -> "3003"
      [] f = "endpoint" -> "/cli-endpoint"
      [] f = "mode" -> "rest"

AuthUnder(f) ==
    CASE f = "apiKey" -> "api_key"
      [] f = "apiHost" -> "api_host"
      [] f = "basePath" -> "base_path"
      [] f = "resourceMode" -> "resource_mode"
      [] f = "port" -> "server_port"
      [] f = "endpoint" -> "server_endpoint"
      [] f = "mode" -> "server_mode"

AuthCamel(f) ==
    CASE f = "apiKey" -> "apiKey"
      [] f = "apiHost" -> "apiHost"
      [] f = "basePath" -> "basePath"
      [] f = "resourceMode" -> "resourceMode"
      [] f = "port" -> "serverPort"
      [] f = "endpoint" -> "serverEndpoint"
      [] f = "mode" -> "serverMode"

AuthRaw(f) ==
    CASE f = "apiKey" -> "req-key"
      [] f = "apiHost" -> "https://req.host"
      [] f = "basePath" -> "/req/base"
      [] f = "resourceMode" -> "url"
      [] f = "port" -> "3004x"
      [] f = "endpoint" -> "/req-endpoint"
      [] f = "mode" -> "sse"

EnvOf(S) == [n \in {EnvName(f) : f \in S} |-> EnvRaw(CHOOSE f \in S : EnvName(f) = n)]

RECURSIVE ArgvFrom(_, _, _)
ArgvFrom(S, camel, i) ==
    IF i > Len(FieldOrder) THEN <<>>
    ELSE LET f == FieldOrder[i]
             name == IF camel THEN camelCaseOf(CliName(f)) ELSE CliName(f)
         IN  (IF f \in S
              THEN <<[dashed |-> TRUE, text |-> name], [dashed |-> FALSE, text |-> CliRaw(f)]>>
              ELSE <<>>) \o ArgvFrom(S, camel, i + 1)

ArgvOf(S, camel) == ArgvFrom(S, camel, 1)

\* The object a configuration file of fields S parses to
FileObjOf(S) ==
    LET top == [f \in S \cap ScalarFields |-> FileValue(f)]
        srv == [f \in S \cap ServerFields |-> FileValue(f)]
    IN  IF S \cap ServerFields = {} THEN top ELSE Put(top, "server", srv)

AuthOf(S, camel) ==
    [k \in {IF camel THEN AuthCamel(f) ELSE AuthUnder(f) : f \in S} |->
        AuthRaw(CHOOSE f \in S : k = (IF camel THEN AuthCamel(f) ELSE AuthUnder(f)))]

ConfigFiles ==
    {[status |-> "absent", content |-> EmptyObj],
     [status |-> "empty", content |-> EmptyObj]}
    \cup {[status |-> "malformed", content |-> FileObjOf(S)] : S \in {Fields, {"apiKey"}}}
    \cup {[status |-> "valid", content |-> FileObjOf(S)] : S \in FieldSets}

Requests ==
    {[hasAuth |-> FALSE, auth |-> EmptyObj]}
    \cup {[hasAuth |-> TRUE, auth |-> AuthOf(S, camel)] : S \in FieldSets, camel \in BOOLEAN}
    \cup {[hasAuth |-> TRUE, auth |-> [server_mode |-> "bogus"]],
          [hasAuth |-> TRUE, auth |-> [api_key |-> "req-key-under", apiKey |-> "req-key"]]}

NoRequest == [hasAuth |-> FALSE, auth |-> EmptyObj]

(***************************************************************************)
(* Specification of configuration resolution: a process is started with    *)
(* some environment, command line and configuration file, and requests     *)
(* are resolved against them.                                              *)
(***************************************************************************)
ConfigInit ==
    /\ env \in {EnvOf(S) : S \in FieldSets}
    /\ argv \in {ArgvOf(S, camel) : S \in FieldSets, camel \in BOOLEAN}
    /\ cfgFile \in ConfigFiles
    /\ resolved = [done |-> FALSE, request |-> NoRequest, threw |-> FALSE,
                   config |-> EmptyObj]
    /\ IndexIdle
    /\ VideoIdle
    /\ ToolIdle
    /\ SseIdle
    /\ McpIdle
    /\ QueryIdle
    /\ StartIdle
    /\ PlayIdle
    /\ CloneIdle

\* MCPRestServer.extractRequestConfig followed by ConfigManager.getConfig.
\* The call reads the process layers and its request only, so a behaviour
\* holds one call.
ResolveRequest(request) ==
    /\ ~resolved.done
    /\ resolved' = [done |-> TRUE, request |-> request,
                    threw |-> getConfig(extractRequestConfig(request), EmptyObj).threw,
                    config |-> getConfig(extractRequestConfig(request), EmptyObj).config]
    /\ UNCHANGED <<env, argv, cfgFile>>
    /\ UNCHANGED configFrame

ConfigNext == \E request \in Requests : ResolveRequest(request)

ConfigSpec == ConfigInit /\ [][ConfigNext]_vars

(***************************************************************************)
(* What each layer defines, read from the raw inputs                       *)
(***************************************************************************)
\* The value of field f in a resolved configuration
FieldOf(config, f) ==
    IF f \in ScalarFields THEN Get(config, f)
    ELSE IF Has(config, "server") THEN Get(config.server, f) ELSE Undef

\* A raw value defines field f: it is non-empty, and a mode is a known one
Defines(f, raw) == TruthyStr(raw) /\ (f = "mode" => isValidTransportMode(raw))

\* The number a raw port stands for
ValueOf(f, raw) == IF f = "port" THEN ParseInt(raw) ELSE raw

RequestDefines(request, f) ==
    /\ request.hasAuth
    /\ \/ Defines(f, Get(request.auth, AuthCamel(f)))
       \/ Defines(f, Get(request.auth, AuthUnder(f)))

RequestValue(request, f) ==
    IF Defines(f, Get(request.auth, AuthCamel(f)))
    THEN ValueOf(f, request.auth[AuthCamel(f)])
    ELSE ValueOf(f, request.auth[AuthUnder(f)])

CliPositions(f) ==
    {i \in 1..(Len(argv) - 1) :
        /\ argv[i].dashed
        /\ argv[i].text \in {CliName(f), camelCaseOf(CliName(f))}
        /\ ~argv[i + 1].dashed
        /\ Defines(f, argv[i + 1].text)}

CliDefines(f) == CliPositions(f) # {}

CliValue(f) == ValueOf(f, argv[(CHOOSE i \in CliPositions(f) : TRUE) + 1].text)

EnvDefines(f) == Defines(f, Get(env, EnvName(f)))

EnvValue(f) == ValueOf(f, env[EnvName(f)])

FileDefines(f) ==
    /\ cfgFile.status = "valid"
    /\ IF f \in ScalarFields THEN Has(cfgFile.content, f)
       ELSE Has(cfgFile.content, "server") /\ Has(cfgFile.content.server, f)

FileDefined(f) ==
    IF f \in ScalarFields THEN cfgFile.content[f] ELSE cfgFile.content.server[f]

DefaultOf(f) ==
    CASE f = "apiKey" -> ""
      [] f = "apiHost" -> DEFAULT_API_HOST
      [] f = "basePath" -> Undef
      [] f = "resourceMode" -> RESOURCE_MODE_URL
      [] f = "port" -> DEFAULT_SERVER_PORT
      [] f = "endpoint" -> DEFAULT_SERVER_ENDPOINT
      [] f = "mode" -> TRANSPORT_MODE_STDIO

\* The value of the highest of the process layers that defines f
LowerExpected(f) ==
    IF CliDefines(f) THEN CliValue(f)
    ELSE IF EnvDefines(f) THEN EnvValue(f)
    ELSE IF FileDefines(f) THEN FileDefined(f)
    ELSE DefaultOf(f)

Expected(request, f) ==
    IF RequestDefines(request, f) THEN RequestValue(request, f) ELSE LowerExpected(f)

\* C1: every field of the configuration getConfig returns has the value of
\* the highest-precedence layer that defines it (request > command line >
\* environment > file > default).
C1_HighestLayerWins ==
    resolved.done =>
        \A f \in Fields : FieldOf(resolved.config, f) = Expected(resolved.request, f)

\* The part of C1 the code keeps: the four top-level fields.
C1_ScalarFieldsResolved ==
    resolved.done =>
        \A f \in ScalarFields : FieldOf(resolved.config, f) = Expected(resolved.request, f)

\* The request carries no server sub-field at all
NoServerKeys(request) ==
    \A f \in ServerFields :
        ~Has(request.auth, AuthUnder(f)) /\ ~Has(request.auth, AuthCamel(f))

\* C2: an override (meta.auth) without server sub-fields leaves the server
\* descriptor as the lower layers resolved it.
C2_ServerKeptWithoutServerOverride ==
    (resolved.done /\ NoServerKeys(resolved.request)) =>
        /\ Has(resolved.config, "server")
        /\ resolved.config.server = LowerLayers(EmptyObj, cfgFile, env, argv).config.server
        /\ \A f \in ServerFields : FieldOf(resolved.config, f) = LowerExpected(f)

C2_Witness ==
    /\ resolved.done
    /\ resolved.request.hasAuth
    /\ Has(resolved.request.auth, "api_key")
    /\ NoServerKeys(resolved.request)
    /\ CliDefines("port")
    /\ EnvDefines("mode")
    /\ resolved.config.server.port = "3003"
    /\ resolved.config.apiKey = "req-key"

\* C3: getConfig does not throw when the configuration file is absent,
\* empty or malformed, and returns what it returns without a file.
C3_BadFileIsEmptyLayer ==
    (resolved.done /\ cfgFile.status \in {"absent", "empty", "malformed"}) =>
        /\ ~resolved.threw
        /\ resolved.config =
             getConfigWith(extractRequestConfig(resolved.request), EmptyObj,
                           [status |-> "absent", content |-> EmptyObj], env, argv).config
        /\ \A f \in ScalarFields :
             ~RequestDefines(resolved.request, f) =>
                 resolved.config[f] # FileValue(f) \/ CliDefines(f) \/ EnvDefines(f)

C3_Witness ==
    /\ resolved.done
    /\ cfgFile.status = "malformed"
    /\ Has(cfgFile.content, "apiKey")
    /\ ~resolved.threw
    /\ resolved.config.apiKey = ""

(***************************************************************************)
(* The legacy single-file server (index.ts): one module-level `config`     *)
(* and one set of API instances built from it, shared by all tool handlers *)
(***************************************************************************)
DEFAULT_TRANSPORT_MODE == "stdio"

\* getParamValue(name) of @chatmcp/sdk: the parameter the process was given
getParamValue(name) == Get(params, name)

\* The module-level defaultConfig and the `config` copied from it
indexDefaultConfig ==
    [apiKey |-> OrStr(getParamValue("api_key"), OrStr(Get(env, ENV_MINIMAX_API_KEY), "")),
     basePath |-> OrStr(getParamValue("base_path"), Get(env, ENV_MINIMAX_MCP_BASE_PATH)),
     apiHost |-> OrStr(getParamValue("api_host"),
                       OrStr(Get(env, ENV_MINIMAX_API_HOST), DEFAULT_API_HOST)),
     resourceMode |-> OrStr(getParamValue("resource_mode"),
                            OrStr(Get(env, ENV_RESOURCE_MODE), RESOURCE_MODE_URL)),
     server |-> [mode |-> OrStr(getParamValue("mode"),
                                OrStr(Get(env, ENV_TRANSPORT_MODE), DEFAULT_TRANSPORT_MODE)),
                 port |-> IF TruthyStr(getParamValue("port"))
                          THEN ParseInt(getParamValue("port"))
                          ELSE IF TruthyStr(Get(env, ENV_SERVER_PORT))
                               THEN ParseInt(env[ENV_SERVER_PORT])
                               ELSE DEFAULT_SERVER_PORT,
                 endpoint |-> OrStr(getParamValue("endpoint"),
                                    OrStr(Get(env, ENV_SERVER_ENDPOINT),
                                          DEFAULT_SERVER_ENDPOINT))]]

\* name.toUpperCase() for the names getConfigFromRequest asks for
toUpperCase(name) ==
    CASE name = "api_key" -> "API_KEY"
      [] name = "apiKey" -> "APIKEY"
      [] name = "base_path" -> "BASE_PATH"
      [] name = "basePath" -> "BASEPATH"
      [] name = "api_host" -> "API_HOST"
      [] name = "apiHost" -> "APIHOST"
      [] name = "resource_mode" -> "RESOURCE_MODE"
      [] name = "resourceMode" -> "RESOURCEMODE"
      [] name = "transport_mode" -> "TRANSPORT_MODE"
      [] name = "transportMode" -> "TRANSPORTMODE"
      [] name = "port" -> "PORT"
      [] name = "endpoint" -> "ENDPOINT"

\* name.toLowerCase() for the same names
toLowerCase(name) ==
    CASE name = "apiKey" -> "apikey"
      [] name = "basePath" -> "basepath"
      [] name = "apiHost" -> "apihost"
      [] name = "resourceMode" -> "resourcemode"
      [] name = "transportMode" -> "transportmode"
      [] OTHER -> name

\* getAuthValue(name, auth) with its default value ''
getAuthValue(name, auth) ==
    LET value == OrStr(Get(auth, name),
                       OrStr(Get(auth, toUpperCase(name)), Get(auth, toLowerCase(name))))
    IN  IF TruthyStr(value) THEN value ELSE ""

\* The serverConfig object getConfigFromRequest builds
requestServerConfig(auth) ==
    [mode |-> OrStr(getAuthValue("transport_mode", auth), getAuthValue("transportMode", auth)),
     port |-> IF TruthyStr(getAuthValue("port", auth))
              THEN ParseInt(getAuthValue("port", auth)) ELSE Undef,
     endpoint |-> getAuthValue("endpoint", auth)]

\* getConfigFromRequest({params}): params.meta.auth is request.auth when
\* request.hasAuth; the result is [undef, config]
getConfigFromRequest(request) ==
    IF ~request.hasAuth \/ DOMAIN request.auth = {}
    THEN [undef |-> TRUE, config |-> EmptyObj]
    ELSE LET auth == request.auth
             serverConfig == requestServerConfig(auth)
             config == [apiKey |-> OrStr(getAuthValue("api_key", auth),
                                         getAuthValue("apiKey", auth)),
                        basePath |-> OrStr(getAuthValue("base_path", auth),
                                           getAuthValue("basePath", auth)),
                        apiHost |-> OrStr(getAuthValue("api_host", auth),
                                          getAuthValue("apiHost", auth)),
                        resourceMode |-> OrStr(getAuthValue("resource_mode", auth),
                                               getAuthValue("resourceMode", auth))]
         IN  [undef |-> FALSE,
              config |-> IF \/ TruthyStr(serverConfig.mode)
                            \/ TruthyNum(serverConfig.port)
                            \/ TruthyStr(serverConfig.endpoint)
                         THEN Put(config, "server", serverConfig)
                         ELSE config]

\* updateConfig(newConfig) applied to the module-level config: the value
\* the module-level config has afterwards
updateConfig(config, newConfig) ==
    LET c1 == IF Has(newConfig, "server") /\ HasServer(config)
              THEN Put(config, "server", ObjectAssign(config.server, newConfig.server))
              ELSE IF Has(newConfig, "server")
                   THEN Put(config, "server", newConfig.server)
                   ELSE config
        rest == [k \in DOMAIN newConfig \ {"server"} |-> newConfig[k]]
    IN  ObjectAssign(c1, rest)

updateConfigFromRequest(config, request) ==
    IF request.hasAuth /\ ~getConfigFromRequest(request).undef
    THEN updateConfig(config, getConfigFromRequest(request).config)
    ELSE config

\* The text of a token of process.argv
rawArg(token) == IF token.dashed THEN "--" \o token.text ELSE token.text

\* The loop of getConfigFromCommandLine: state is [config, serverConfig]
RECURSIVE getConfigFromCommandLineFrom(_, _, _)
getConfigFromCommandLineFrom(args, i, st) ==
    IF i > Len(args) THEN st
    ELSE IF args[i].dashed /\ i + 1 <= Len(args)
            /\ args[i].text \in {"api-key", "api-host", "base-path", "resource-mode"}
         THEN getConfigFromCommandLineFrom(args, i + 2,
                  [st EXCEPT !.config =
                      Put(@, camelCaseOf(args[i].text), rawArg(args[i + 1]))])
         ELSE IF args[i].dashed /\ i + 1 <= Len(args)
                 /\ args[i].text \in {"mode", "port", "endpoint"}
              THEN getConfigFromCommandLineFrom(args, i + 2,
                       [st EXCEPT !.serverConfig =
                           Put(@, args[i].text,
                               IF args[i].text = "port"
                               THEN ParseInt(rawArg(args[i + 1]))
                               ELSE rawArg(args[i + 1]))])
              ELSE getConfigFromCommandLineFrom(args, i + 1, st)

\* getConfigFromCommandLine(): [undef, config]
getConfigFromCommandLine(args) ==
    LET st == getConfigFromCommandLineFrom(args, 1,
                  [config |-> EmptyObj, serverConfig |-> EmptyObj])
        config == IF DOMAIN st.serverConfig # {}
                  THEN Put(st.config, "server", st.serverConfig)
                  ELSE st.config
    IN  [undef |-> DOMAIN config = {}, config |-> config]

\* getConfigFromFile(): undefined when the file is absent or does not parse
getConfigFromFile(file) ==
    IF existsSync(file) /\ JSONparse(file).ok
    THEN [undef |-> FALSE, config |-> JSONparse(file).value]
    ELSE [undef |-> TRUE, config |-> EmptyObj]

\* delete o[k]
Delete(o, k) == [x \in DOMAIN o \ {k} |-> o[x]]

\* runServer: the fields of the file that the environment also sets are
\* deleted from the copy of the file configuration
configWithEnv(fileConfig, e) ==
    LET DropIf(o, name, k) == IF TruthyStr(Get(e, name)) THEN Delete(o, k) ELSE o
        c1 == DropIf(fileConfig, ENV_MINIMAX_API_KEY, "apiKey")
        c2 == DropIf(c1, ENV_MINIMAX_API_HOST, "apiHost")
        c3 == DropIf(c2, ENV_MINIMAX_MCP_BASE_PATH, "basePath")
        c4 == DropIf(c3, ENV_RESOURCE_MODE, "resourceMode")
    IN  IF Has(c4, "server")
        THEN Put(c4, "server",
                 DropIf(DropIf(DropIf(c4.server, ENV_TRANSPORT_MODE, "mode"),
                               ENV_SERVER_PORT, "port"),
                        ENV_SERVER_ENDPOINT, "endpoint"))
        ELSE c4

\* runServer up to the validation: the module-level config once the file
\* and the command line have been applied
runServerConfig(config, file, e, args) ==
    LET fileConfig == getConfigFromFile(file)
        c1 == IF fileConfig.undef THEN config
              ELSE updateConfig(config, configWithEnv(fileConfig.config, e))
        cmdConfig == getConfigFromCommandLine(args)
    IN  IF cmdConfig.undef THEN c1 ELSE updateConfig(c1, cmdConfig.config)

\* runServer's validation: an error is thrown and the process exits
runServerThrows(config) ==
    ~TruthyStr(Get(config, "apiKey")) \/ ~TruthyStr(Get(config, "apiHost"))

\* new MiniMaxAPI(config): the instance keeps the credential, the host and
\* the resource mode of the configuration it is built from
MiniMaxAPI(config) ==
    [apiKey |-> Get(config, "apiKey"),
     apiHost |-> Get(config, "apiHost"),
     resourceMode |-> Get(config, "resourceMode")]

\* The tools index.ts registers
IndexTools ==
    {"text_to_audio", "list_voices", "play_audio", "text_to_image", "generate_video",
     "voice_clone"}

\* The synchronous head of a tool handler: every tool but text_to_audio
\* calls updateConfigFromRequest(params) first
beginConfig(config, tool, request) ==
    IF tool = "text_to_audio" THEN config ELSE updateConfigFromRequest(config, request)

\* After its await, text_to_image and generate_video read the module-level
\* config.resourceMode to shape the result; the other tools leave the
\* output mode to the API instance they called
resultFormat(call, config) ==
    IF call.tool \in {"text_to_image", "generate_video"}
    THEN Get(config, "resourceMode")
    ELSE call.api.resourceMode

(***************************************************************************)
(* Specification of the legacy server: the module is loaded, runServer     *)
(* applies the file and the command line, and tool invocations of two      *)
(* clients are served, each handler running up to its await and            *)
(* resuming later.                                                         *)
(***************************************************************************)
Slots == {1, 2}

IndexParams == {EmptyObj, [api_key |-> "param-key"]}

IndexRequests ==
    {NoRequest,
     [hasAuth |-> TRUE, auth |-> [api_key |-> "tenant-a-key"]],
     [hasAuth |-> TRUE, auth |-> [api_key |-> "tenant-b-key",
                                  api_host |-> "https://tenant-b.host",
                                  resource_mode |-> "local"]]}

IndexInit ==
    /\ env \in {EnvOf(S) : S \in {{}, ScalarFields}}
    /\ argv \in {ArgvOf(S, FALSE) : S \in {{}, {"resourceMode", "port"}}}
    /\ cfgFile \in {[status |-> "absent", content |-> EmptyObj],
                    [status |-> "valid", content |-> FileObjOf(Fields)]}
    /\ resolved = [done |-> FALSE, request |-> NoRequest, threw |-> FALSE,
                   config |-> EmptyObj]
    /\ params \in IndexParams
    /\ indexPhase = "module"
    /\ indexConfig = indexDefaultConfig
    /\ inflight = [s \in Slots |-> NoCall]
    /\ served = NoCall
    /\ VideoIdle
    /\ ToolIdle
    /\ SseIdle
    /\ McpIdle
    /\ QueryIdle
    /\ StartIdle
    /\ PlayIdle
    /\ CloneIdle

RunServer ==
    /\ indexPhase = "module"
    /\ indexConfig' = runServerConfig(indexConfig, cfgFile, env, argv)
    /\ indexPhase' = IF runServerThrows(indexConfig') THEN "failed" ELSE "serving"
    /\ UNCHANGED <<params, inflight, served>>
    /\ UNCHANGED indexFrame

\* A tool handler up to its await: updateConfig replaces the module-level
\* config and the API instances, and the handler calls the instance that
\* is current at that moment
BeginTool(slot, tool, request) ==
    /\ indexPhase = "serving"
    /\ inflight[slot] = NoCall
    /\ indexConfig' = beginConfig(indexConfig, tool, request)
    /\ inflight' = [inflight EXCEPT ![slot] =
                       [tool |-> tool, request |-> request,
                        api |-> MiniMaxAPI(indexConfig')]]
    /\ UNCHANGED <<params, indexPhase, served>>
    /\ UNCHANGED indexFrame

\* A tool handler from its await to its return
ReturnTool(slot) ==
    /\ indexPhase = "serving"
    /\ inflight[slot] # NoCall
    /\ served' = [tool |-> inflight[slot].tool,
                  request |-> inflight[slot].request,
                  api |-> inflight[slot].api,
                  format |-> resultFormat(inflight[slot], indexConfig)]
    /\ inflight' = [inflight EXCEPT ![slot] = NoCall]
    /\ UNCHANGED <<params, indexPhase, indexConfig>>
    /\ UNCHANGED indexFrame

IndexNext ==
    \/ RunServer
    \/ \E slot \in Slots, tool \in IndexTools, request \in IndexRequests :
           BeginTool(slot, tool, request)
    \/ \E slot \in Slots : ReturnTool(slot)

IndexSpec == IndexInit /\ [][IndexNext]_vars

\* What the process-level layers alone give a tool invocation: the handler
\* run on the configuration runServer left
ProcessConfig == runServerConfig(indexDefaultConfig, cfgFile, env, argv)

ServedAlone(tool, request) ==
    LET config == beginConfig(ProcessConfig, tool, request)
        api == MiniMaxAPI(config)
    IN  [api |-> api,
         format |-> resultFormat([tool |-> tool, api |-> api], config)]

\* C4: the credential, host and resource mode an invocation is served with
\* depend on its own override and the process-level layers only: they are
\* the ones it is served with when no other invocation has ever run.
C4_ServedByOwnOverrideOnly ==
    served # NoCall =>
        /\ served.api = ServedAlone(served.tool, served.request).api
        /\ served.format = ServedAlone(served.tool, served.request).format

(***************************************************************************)
(* VideoAPI.generateVideo: submission, the polling loop, file retrieval    *)
(* and download.  An error is [message, id]: the text before the id it     *)
(* carries, and that id.                                                   *)
(***************************************************************************)
maxRetries == 30

retryInterval == 20

ERROR_PROMPT_REQUIRED == "ERROR_PROMPT_REQUIRED"

\* request.prompt.trim() for the prompts drawn
trim(text) == IF text = "   " THEN "" ELSE text

\* firstFrameImage is a URL or a data URL
isUrlOrDataUrl(image) == image \in {"https://host/frame.png", "data:image/png;base64,AAAA"}

\* fs.existsSync(request.firstFrameImage)
frameExists(image) == image # "/missing.png"

Throw(message, id) ==
    [kind |-> "throw", message |-> message, id |-> id,
     task_id |-> Undef, video_url |-> Undef, video_path |-> Undef]

Return(task_id, video_url, video_path) ==
    [kind |-> "return", message |-> Undef, id |-> Undef,
     task_id |-> task_id, video_url |-> video_url, video_path |-> video_path]

\* buildOutputFile(`video_${taskId}`, request.outputDirectory, 'mp4', true)
buildOutputFile(taskId) == IF taskId = "task-1" THEN "video_task-1.mp4" ELSE "video_task-2.mp4"

\* The outer catch: a MinimaxRequestError passes, any other error is wrapped
outerCatch(thrown) ==
    IF thrown = "MinimaxRequestError"
    THEN Throw("upstream request error", Undef)
    ELSE Throw("Unexpected error occurred during video generation", Undef)

\* The loop condition taken one attempt too far
loopContinuesOneMore(attempt) == attempt <= maxRetries

\* attempt < maxRetries
loopContinues(attempt) == attempt < maxRetries

\* A Success with a file id does not leave the loop
pollOutcomeSuccessWaits(statusResponse) ==
    CASE statusResponse.status = "Fail" -> "fail"
      [] statusResponse.status = "Success" /\ ~TruthyStr(statusResponse.file_id) -> "missing"
      [] OTHER -> "wait"

\* Fail is taken for a status still in progress
pollOutcomeFailIgnored(statusResponse) ==
    CASE statusResponse.status = "Success" /\ TruthyStr(statusResponse.file_id) -> "break"
      [] statusResponse.status = "Success" -> "missing"
      [] OTHER -> "wait"

\* The branch the loop body takes on a status response
pollOutcome(statusResponse) ==
    CASE statusResponse.status = "Fail" -> "fail"
      [] statusResponse.status = "Success" /\ TruthyStr(statusResponse.file_id) -> "break"
      [] statusResponse.status = "Success" -> "missing"
      [] OTHER -> "wait"

\* What the loop body throws on a status response; NoResult when it breaks
\* out of the loop or goes on to wait
pollResult(statusResponse, taskId) ==
    CASE pollOutcome(statusResponse) = "fail" ->
           Throw("Video generation task failed, task ID", taskId)
      [] pollOutcome(statusResponse) = "missing" ->
           Throw("File ID missing in success response, task ID", taskId)
      [] OTHER -> NoResult

\* Step 3 without the test of the resource mode: the download follows in
\* URL mode too
retrieveResultAlwaysDownloads(fileResponse, taskId, fileId, resourceMode) ==
    IF fileResponse.thrown # Undef
    THEN outerCatch(fileResponse.thrown)
    ELSE IF ~TruthyStr(fileResponse.download_url)
    THEN Throw("Unable to get download URL for file ID", fileId)
    ELSE NoResult

\* Step 3 of generateVideo on the response of /v1/files/retrieve; NoResult
\* when it goes on to the download
retrieveResult(fileResponse, taskId, fileId, resourceMode) ==
    IF fileResponse.thrown # Undef
    THEN outerCatch(fileResponse.thrown)
    ELSE IF ~TruthyStr(fileResponse.download_url)
    THEN Throw("Unable to get download URL for file ID", fileId)
    ELSE IF resourceMode = RESOURCE_MODE_URL
    THEN Return(taskId, fileResponse.download_url, Undef)
    ELSE NoResult

\* Step 4 of generateVideo: the download and the write of the file
downloadResult(ok, taskId) ==
    IF ok
    THEN Return(taskId, Undef, buildOutputFile(taskId))
    ELSE Throw("Failed to download or save video", Undef)

\* The loop test and, when the loop is left without a file id, the check
\* that follows it: [pc, result]
loopTest(attempt, taskId) ==
    IF loopContinues(attempt)
    THEN [pc |-> "poll", result |-> NoResult]
    ELSE [pc |-> "done", result |-> Throw("Failed to get file ID, task ID", taskId)]

(***************************************************************************)
(* Inputs of generateVideo                                                 *)
(***************************************************************************)
VideoRequests ==
    [prompt : {"", "   ", "a cat"},
     asyncMode : BOOLEAN,
     firstFrameImage : {Undef, "https://host/frame.png", "/missing.png", "/frame.png"},
     outputFile : {Undef, "/out/clip.mp4"},
     resourceMode : {"url", "local"}]

\* The generate_video and image_to_video callbacks before they call
\* generateVideo: an outputFile that was not given is made up from the
\* prompt and the time
withOutputFile(toolParams) ==
    IF TruthyStr(toolParams.outputFile)
    THEN toolParams
    ELSE [toolParams EXCEPT !.outputFile = "video_<promptPrefix>_<now>"]

\* this.api.post / this.api.get: a response, or an error thrown
Thrown == {"MinimaxRequestError", "Error"}

SubmitResponses ==
    {[thrown |-> Undef, task_id |-> t] : t \in {"task-1", "task-2", Undef}}
    \cup {[thrown |-> e, task_id |-> Undef] : e \in Thrown}

StatusResponses ==
    {[thrown |-> Undef, status |-> st, file_id |-> f] :
        st \in {"Queueing", "Processing", "Success", "Fail", Undef}, f \in {Undef, "file-1"}}
    \cup {[thrown |-> e, status |-> Undef, file_id |-> Undef] : e \in Thrown}

FileResponses ==
    {[thrown |-> Undef, download_url |-> u] : u \in {"https://cdn/video.mp4", Undef}}
    \cup {[thrown |-> e, download_url |-> Undef] : e \in Thrown}

(***************************************************************************)
(* Specification of one generateVideo call: each action runs the code from *)
(* one await to the next.                                                  *)
(***************************************************************************)
VideoInit ==
    /\ videoRequest \in {withOutputFile(toolParams) : toolParams \in VideoRequests}
    /\ videoPc = "start"
    /\ videoAttempt = 0
    /\ videoTaskId = Undef
    /\ videoFileId = Undef
    /\ videoDownloadUrl = Undef
    /\ videoCalls = NoCalls
    /\ videoSleeps = [count |-> 0, seconds |-> 0]
    /\ videoNonTerminal = 0
    /\ videoLast = NoStatus
    /\ videoResult = NoResult
    /\ videoResponse = <<>>
    /\ ConfigIdle
    /\ IndexIdle
    /\ ToolIdle
    /\ SseIdle
    /\ McpIdle
    /\ QueryIdle
    /\ StartIdle
    /\ PlayIdle
    /\ CloneIdle

\* generateVideo ends: it returns or throws
Finish(result) ==
    /\ videoPc' = "done"
    /\ videoResult' = result

\* generateVideo without the asyncMode test after the submission
SubmitIgnoresAsyncMode(response) ==
    /\ videoPc = "start"
    /\ IF ~TruthyStr(videoRequest.prompt) \/ trim(videoRequest.prompt) = ""
       THEN Finish(Throw(ERROR_PROMPT_REQUIRED, Undef)) /\ UNCHANGED <<videoCalls, videoTaskId>>
       ELSE IF /\ TruthyStr(videoRequest.firstFrameImage)
               /\ ~isUrlOrDataUrl(videoRequest.firstFrameImage)
               /\ ~frameExists(videoRequest.firstFrameImage)
       THEN /\ Finish(Throw("First frame image file does not exist", Undef))
            /\ UNCHANGED <<videoCalls, videoTaskId>>
       ELSE /\ videoCalls' = [videoCalls EXCEPT !.submit = @ + 1]
            /\ videoTaskId' = response.task_id
            /\ IF response.thrown # Undef
               THEN Finish(outerCatch(response.thrown))
               ELSE IF ~TruthyStr(response.task_id)
               THEN Finish(Throw("Unable to get task ID from response", Undef))
               ELSE /\ videoPc' = loopTest(0, response.task_id).pc
                    /\ videoResult' = loopTest(0, response.task_id).result
    /\ UNCHANGED <<videoRequest, videoAttempt, videoFileId, videoDownloadUrl, videoSleeps,
                   videoNonTerminal, videoLast>>
    /\ UNCHANGED videoResponse
    /\ UNCHANGED videoFrame

\* Validation, the first frame image, and the submission with what follows
\* it up to the first status query
Submit(response) ==
    /\ videoPc = "start"
    /\ IF ~TruthyStr(videoRequest.prompt) \/ trim(videoRequest.prompt) = ""
       THEN Finish(Throw(ERROR_PROMPT_REQUIRED, Undef)) /\ UNCHANGED <<videoCalls, videoTaskId>>
       ELSE IF /\ TruthyStr(videoRequest.firstFrameImage)
               /\ ~isUrlOrDataUrl(videoRequest.firstFrameImage)
               /\ ~frameExists(videoRequest.firstFrameImage)
       THEN /\ Finish(Throw("First frame image file does not exist", Undef))
            /\ UNCHANGED <<videoCalls, videoTaskId>>
       ELSE /\ videoCalls' = [videoCalls EXCEPT !.submit = @ + 1]
            /\ videoTaskId' = response.task_id
            /\ IF response.thrown # Undef
               THEN Finish(outerCatch(response.thrown))
               ELSE IF ~TruthyStr(response.task_id)
               THEN Finish(Throw("Unable to get task ID from response", Undef))
               ELSE IF videoRequest.asyncMode
               THEN Finish(Return(response.task_id, Undef, Undef))
               ELSE /\ videoPc' = loopTest(0, response.task_id).pc
                    /\ videoResult' = loopTest(0, response.task_id).result
    /\ UNCHANGED <<videoRequest, videoAttempt, videoFileId, videoDownloadUrl, videoSleeps,
                   videoNonTerminal, videoLast>>
    /\ UNCHANGED videoResponse
    /\ UNCHANGED videoFrame

\* One status query and the branch taken on its response
Query(statusResponse) ==
    /\ videoPc = "poll"
    /\ videoCalls' = [videoCalls EXCEPT !.query = @ + 1]
    /\ videoLast' = [status |-> statusResponse.status, file_id |-> statusResponse.file_id]
    /\ videoNonTerminal' =
         IF statusResponse.thrown = Undef /\ statusResponse.status \notin {"Fail", "Success"}
         THEN videoNonTerminal + 1 ELSE videoNonTerminal
    /\ IF statusResponse.thrown # Undef
       THEN Finish(outerCatch(statusResponse.thrown)) /\ UNCHANGED videoFileId
       ELSE CASE pollOutcome(statusResponse) = "fail" ->
                   /\ Finish(pollResult(statusResponse, videoTaskId))
                   /\ UNCHANGED videoFileId
              [] pollOutcome(statusResponse) = "break" ->
                   /\ videoFileId' = statusResponse.file_id
                   /\ videoPc' = "retrieve"
                   /\ UNCHANGED videoResult
              [] pollOutcome(statusResponse) = "missing" ->
                   /\ videoFileId' = statusResponse.file_id
                   /\ Finish(pollResult(statusResponse, videoTaskId))
              [] OTHER ->
                   /\ videoPc' = "sleep"
                   /\ UNCHANGED <<videoFileId, videoResult>>
    /\ UNCHANGED <<videoRequest, videoAttempt, videoTaskId, videoDownloadUrl, videoSleeps>>
    /\ UNCHANGED videoResponse
    /\ UNCHANGED videoFrame

\* The timer of retryInterval seconds fires; attempt++ and the loop test
Sleep ==
    /\ videoPc = "sleep"
    /\ videoSleeps' = [count |-> videoSleeps.count + 1,
                       seconds |-> videoSleeps.seconds + retryInterval]
    /\ videoAttempt' = videoAttempt + 1
    /\ videoPc' = loopTest(videoAttempt', videoTaskId).pc
    /\ videoResult' = loopTest(videoAttempt', videoTaskId).result
    /\ UNCHANGED <<videoRequest, videoTaskId, videoFileId, videoDownloadUrl, videoCalls,
                   videoNonTerminal, videoLast>>
    /\ UNCHANGED videoResponse
    /\ UNCHANGED videoFrame

\* File retrieval and, in URL mode, the return of the download URL
Retrieve(fileResponse) ==
    /\ videoPc = "retrieve"
    /\ videoCalls' = [videoCalls EXCEPT !.retrieve = @ + 1]
    /\ videoDownloadUrl' = fileResponse.download_url
    /\ IF retrieveResult(fileResponse, videoTaskId, videoFileId,
                         videoRequest.resourceMode) # NoResult
       THEN Finish(retrieveResult(fileResponse, videoTaskId, videoFileId,
                                  videoRequest.resourceMode))
       ELSE /\ videoPc' = "download"
            /\ UNCHANGED videoResult
    /\ UNCHANGED <<videoRequest, videoAttempt, videoTaskId, videoFileId, videoSleeps,
                   videoNonTerminal, videoLast>>
    /\ UNCHANGED videoResponse
    /\ UNCHANGED videoFrame

\* Download of the video and the write of the output file
Download(ok) ==
    /\ videoPc = "download"
    /\ videoCalls' = [videoCalls EXCEPT !.download = @ + 1]
    /\ Finish(downloadResult(ok, videoTaskId))
    /\ UNCHANGED <<videoRequest, videoAttempt, videoTaskId, videoFileId, videoDownloadUrl,
                   videoSleeps, videoNonTerminal, videoLast>>
    /\ UNCHANGED videoResponse
    /\ UNCHANGED videoFrame

\* `${value}` in a template literal: a string (kind "text") is spliced as
\* it is, any other object by Object.prototype.toString
templateString(value) ==
    IF value.kind = "text" THEN value.text ELSE "[object Object]"

\* The generate_video callback of MCPServer, MCPSSEServer and index.ts
\* after `await videoApi.generateVideo(params)`: the pieces of the text
generateVideoText(result, resourceMode) ==
    IF result.kind = "throw"
    THEN <<"Failed to generate video: ", result.message, result.id>>
    ELSE IF resourceMode = RESOURCE_MODE_URL
    THEN <<"Success. Video URL: ", templateString(result)>>
    ELSE <<"Video saved: ", templateString(result)>>

\* The callback returns its content once generateVideo has settled
Respond ==
    /\ videoPc = "done"
    /\ videoResponse = <<>>
    /\ videoResponse' = generateVideoText(videoResult, videoRequest.resourceMode)
    /\ UNCHANGED <<videoRequest, videoPc, videoAttempt, videoTaskId, videoFileId,
                   videoDownloadUrl, videoCalls, videoSleeps, videoNonTerminal, videoLast,
                   videoResult>>
    /\ UNCHANGED videoFrame

VideoNext ==
    \/ Respond
    \/ \E response \in SubmitResponses : Submit(response)
    \/ \E statusResponse \in StatusResponses : Query(statusResponse)
    \/ Sleep
    \/ \E fileResponse \in FileResponses : Retrieve(fileResponse)
    \/ \E ok \in BOOLEAN : Download(ok)

VideoSpec == VideoInit /\ [][VideoNext]_vars

\* Every await of generateVideo settles: the upstream answers or the call
\* throws, and the timer fires
VideoLiveSpec == VideoInit /\ [][VideoNext]_vars /\ WF_vars(VideoNext)

\* C5: when k < 30 status queries were answered with a non-terminal status
\* and the next one with Success and a file id, generateVideo has issued
\* exactly k+1 status queries, has slept 20 s after each of the k
\* non-terminal ones only, has left the polling loop, and returns the
\* artifact that the file retrieval gave it.
C5_SuccessAfterKPolls ==
    \A k \in 0..29 :
        (/\ videoNonTerminal = k
         /\ videoLast.status = "Success"
         /\ TruthyStr(videoLast.file_id)) =>
            /\ videoCalls.query = k + 1
            /\ videoSleeps.count = k
            /\ videoSleeps.seconds = 20 * k
            /\ videoPc \in {"retrieve", "download", "done"}
            /\ videoFileId = videoLast.file_id
            /\ videoResult.kind = "throw" =>
                   videoResult.message \notin
                       {"Video generation task failed, task ID",
                        "File ID missing in success response, task ID",
                        "Failed to get file ID, task ID"}
            /\ (/\ videoPc = "done"
                /\ TruthyStr(videoDownloadUrl)
                /\ videoRequest.resourceMode = "url") =>
                   videoResult = Return(videoTaskId, videoDownloadUrl, Undef)

C5_Witness ==
    /\ videoNonTerminal = 29
    /\ videoLast.status = "Success"
    /\ videoLast.file_id = "file-1"
    /\ videoCalls.query = 30
    /\ videoSleeps.seconds = 580
    /\ videoPc = "done"
    /\ videoResult.kind = "return"
    /\ videoResult.video_url = "https://cdn/video.mp4"

\* Every status query so far was answered with a non-terminal status
AllNonTerminal == videoCalls.query >= 1 /\ videoNonTerminal = videoCalls.query

\* C6: generateVideo never issues more than 30 status queries; when every
\* status query is answered with a non-terminal status it ends with the
\* timeout error; and it ends for every sequence of statuses.
C6_PollingBoundedAndEnds ==
    /\ [](videoCalls.query <= 30)
    /\ []((videoPc = "done" /\ AllNonTerminal) =>
            /\ videoCalls.query = 30
            /\ videoResult = Throw("Failed to get file ID, task ID", videoTaskId)
            /\ videoCalls.retrieve = 0)
    /\ <>(videoPc = "done")

C6_Witness ==
    /\ videoPc = "done"
    /\ AllNonTerminal
    /\ videoCalls.query = 30
    /\ videoResult.kind = "throw"
    /\ videoResult.message = "Failed to get file ID, task ID"

\* C7: a status query answered Fail ends generateVideo with the task
\* failure error carrying the task id; one answered Success without a file
\* id ends it with another error, the missing file id; in neither case is
\* the file retrieved.
C7_FailAndMissingFileId ==
    /\ videoLast.status = "Fail" =>
          /\ videoPc = "done"
          /\ videoResult = Throw("Video generation task failed, task ID", videoTaskId)
          /\ videoTaskId \in {"task-1", "task-2"}
          /\ videoCalls.retrieve = 0 /\ videoCalls.download = 0
    /\ (videoLast.status = "Success" /\ ~TruthyStr(videoLast.file_id)) =>
          /\ videoPc = "done"
          /\ videoResult.kind = "throw"
          /\ videoResult.message = "File ID missing in success response, task ID"
          /\ videoResult.message # "Video generation task failed, task ID"
          /\ videoCalls.retrieve = 0 /\ videoCalls.download = 0

C7_Witness ==
    /\ videoLast.status = "Fail"
    /\ videoNonTerminal = 3
    /\ videoPc = "done"
    /\ videoResult.id = "task-2"

(***************************************************************************)
(* Tool handlers of the four bindings: MCPServer (stdio), MCPSSEServer     *)
(* (sse), MCPRestServer (rest) and index.ts (legacy).                      *)
(***************************************************************************)
MAX_RETRY_ATTEMPTS == 3

RETRY_DELAY == 1000

\* Math.pow(2, n)
RECURSIVE pow(_, _)
pow(base, n) == IF n = 0 THEN 1 ELSE base * pow(base, n - 1)

\* The delay before the next attempt
retryDelay(attempt) == RETRY_DELAY * pow(2, attempt - 1)

\* The retry test taken one attempt too far
shouldRetryOnceMore(attempt) == attempt <= MAX_RETRY_ATTEMPTS

\* attempt < MAX_RETRY_ATTEMPTS
shouldRetry(attempt) == attempt < MAX_RETRY_ATTEMPTS

\* wrapError(message, error): `${message}: ${error.message}`
wrapError(message, error) == [error EXCEPT !.wrapped = <<message>> \o @]

\* errorMessage.includes(...) for the two identity-verification markers;
\* wrapping keeps the text of the inner message
includesMarker(error) ==
    error.message \in {"voice clone user forbidden",
                       "should complete real-name verification"}

\* The message a MediaService method and a REST handler put before an error
failurePrefix(tool) ==
    CASE tool = "text_to_audio" -> "Failed to generate speech"
      [] tool = "list_voices" -> "Failed to get voice list"
      [] tool = "text_to_image" -> "Failed to generate image"
      [] tool = "voice_clone" -> "Failed to clone voice"
      [] tool = "play_audio" -> "Failed to play audio"
      [] OTHER -> "Failed to generate video"

handlerPrefix(tool) ==
    IF tool = "list_voices" THEN "Failed to list voices" ELSE failurePrefix(tool)

\* What an awaited call gave: a value, or an error thrown; `upstream` is
\* the answer of the MiniMax API when the call got that far
Resolved(upstream) == [ok |-> TRUE, error |-> NoError, upstream |-> upstream]

Rejected(error, upstream) == [ok |-> FALSE, error |-> error, upstream |-> upstream]

\* A call of an API class (TTSAPI, VoiceCloneAPI, ...): the answer drawn
apiCall(outcome, at) ==
    IF outcome.ok THEN Resolved(outcome.message)
    ELSE Rejected(Error(outcome.message, at), outcome.message)

\* A MediaService method: checkInitialized(), then the API call with its
\* error wrapped
mediaServiceCall(initialized, tool, outcome, at) ==
    IF ~initialized
    THEN Rejected(Error("service media-service is not initialized", at), Undef)
    ELSE IF outcome.ok THEN apiCall(outcome, at)
    ELSE Rejected(wrapError(failurePrefix(tool), apiCall(outcome, at).error),
                  outcome.message)

Content(class, at, error) == [kind |-> "content", class |-> class, at |-> at, error |-> error]

\* A tool callback of MCPServer, MCPSSEServer or index.ts: one API call in
\* a try whose catch returns the failure as content.  Only the first two
\* look for the identity-verification markers, and only in voice_clone.
toolCallback(binding, tool, outcome, at) ==
    LET r == apiCall(outcome, at)
    IN  IF r.ok THEN Content("success", at, NoError)
        ELSE IF tool = "voice_clone" /\ binding \in {"stdio", "sse"}
                /\ includesMarker(r.error)
        THEN Content("advisory", at, NoError)
        ELSE Content("failure", at, r.error)

\* The try block of a handle* method of MCPRestServer
restTry(initialized, call, outcome, at) ==
    IF call.tool = "image_to_video" /\ ~call.firstFrameImage
    THEN Rejected(Error("Missing required parameter: firstFrameImage", at), Undef)
    ELSE mediaServiceCall(initialized, call.tool, outcome, at)

\* One run of a handle* method of MCPRestServer for attempt `at`, up to
\* its return, its throw or its backoff timer: [entry, pc, response]
restHandle(initialized, call, outcome, at) ==
    LET r == restTry(initialized, call, outcome, at)
    IN  IF call.tool = "play_audio"
        THEN [entry |-> Resolved(Undef), pc |-> "done",
              response |-> Content("success", at, NoError)]
        ELSE IF r.ok
        THEN [entry |-> r, pc |-> "done",
              response |-> [kind |-> "bare", class |-> "success", at |-> at,
                            error |-> NoError]]
        ELSE IF call.tool = "voice_clone" /\ includesMarker(r.error)
        THEN [entry |-> r, pc |-> "done", response |-> Content("advisory", at, NoError)]
        ELSE IF shouldRetry(at)
        THEN [entry |-> r, pc |-> "backoff", response |-> NoResponse]
        ELSE [entry |-> r, pc |-> "done",
              response |-> [kind |-> "throw", class |-> "failure", at |-> at,
                            error |-> wrapError("Failed to call tool",
                                                wrapError(handlerPrefix(call.tool),
                                                          r.error))]]

\* handleClientMessage retrying a failure that the tool callback returned
sseHandleClientMessageRetriesFailure(call, transportOk, outcome, at) ==
    IF transportOk /\ (outcome.ok \/ ~shouldRetry(at))
    THEN [entry |-> Resolved(outcome.message), pc |-> "done",
          response |-> toolCallback("sse", call.tool, outcome, at)]
    ELSE IF shouldRetry(at)
    THEN [entry |-> IF transportOk THEN Resolved(outcome.message)
                    ELSE Rejected(Error("transport error", at), Undef),
          pc |-> "backoff", response |-> NoResponse]
    ELSE [entry |-> Rejected(Error("transport error", at), Undef), pc |-> "done",
          response |-> [kind |-> "http500", class |-> "failure", at |-> at,
                        error |-> Error("transport error", at)]]

\* One run of MCPSSEServer.handleClientMessage for attempt `at`:
\* transport.handlePostMessage either throws or hands the message to the
\* tool callback; the error left after the last attempt is answered by the
\* route with status 500
sseHandleClientMessage(call, transportOk, outcome, at) ==
    IF transportOk
    THEN [entry |-> Resolved(outcome.message), pc |-> "done",
          response |-> toolCallback("sse", call.tool, outcome, at)]
    ELSE IF shouldRetry(at)
    THEN [entry |-> Rejected(Error("transport error", at), Undef), pc |-> "backoff",
          response |-> NoResponse]
    ELSE [entry |-> Rejected(Error("transport error", at), Undef), pc |-> "done",
          response |-> [kind |-> "http500", class |-> "failure", at |-> at,
                        error |-> Error("transport error", at)]]

\* A tool callback of MCPServer or index.ts, called once
plainHandle(call, outcome, at) ==
    [entry |-> apiCall(outcome, at), pc |-> "done",
     response |-> toolCallback(call.binding, call.tool, outcome, at)]

handle(initialized, call, transportOk, outcome, at) ==
    CASE call.binding = "rest" -> restHandle(initialized, call, outcome, at)
      [] call.binding = "sse" -> sseHandleClientMessage(call, transportOk, outcome, at)
      [] OTHER -> plainHandle(call, outcome, at)

\* A whole invocation whose transport works, from attempt `at` on, with
\* the MiniMax API answering attempt i by outcomes[i]: the number of runs
\* of the handler and the class of what it ends with
RECURSIVE invocation(_, _, _, _)
invocation(initialized, call, outcomes, at) ==
    IF at > Len(outcomes) THEN [attempts |-> at, class |-> "pending"]
    ELSE LET h == handle(initialized, call, TRUE, outcomes[at], at)
         IN  IF h.pc = "done" THEN [attempts |-> at, class |-> h.response.class]
             ELSE invocation(initialized, call, outcomes, at + 1)

(***************************************************************************)
(* Specification of one tool invocation in one binding                     *)
(***************************************************************************)
Bindings == {"stdio", "sse", "rest", "legacy"}

ToolsOf(binding) ==
    IF binding = "legacy" THEN IndexTools ELSE IndexTools \cup {"image_to_video"}

ToolCalls ==
    {[binding |-> b, tool |-> t, firstFrameImage |-> f] :
        b \in Bindings, t \in IndexTools \cup {"image_to_video"}, f \in BOOLEAN}
    \ {c \in [binding : Bindings, tool : IndexTools \cup {"image_to_video"},
              firstFrameImage : BOOLEAN] :
          \/ c.tool \notin ToolsOf(c.binding)
          \/ c.tool # "image_to_video" /\ ~c.firstFrameImage}

\* What the MiniMax API answers to the call of one attempt
ToolOutcomes ==
    {[ok |-> TRUE, message |-> "result"]}
    \cup {[ok |-> FALSE, message |-> m] :
            m \in {"upstream error", "voice clone user forbidden",
                   "should complete real-name verification",
                   "Video generation task failed, task ID"}}

\* The CallTool handler of MCPRestServer builds a MediaService of its own
\* for the request and does not initialize it
ToolInit ==
    /\ toolCall \in ToolCalls
    /\ toolPc = "attempt"
    /\ toolAttempt = 1
    /\ toolInitialized = FALSE
    /\ toolWaits = <<>>
    /\ toolHistory = <<>>
    /\ toolResponse = NoResponse
    /\ toolDrawn = <<>>
    /\ ConfigIdle
    /\ IndexIdle
    /\ VideoIdle
    /\ SseIdle
    /\ McpIdle
    /\ QueryIdle
    /\ StartIdle
    /\ PlayIdle
    /\ CloneIdle

Attempt(transportOk, outcome) ==
    /\ toolPc = "attempt"
    /\ LET h == handle(toolInitialized, toolCall, transportOk, outcome, toolAttempt)
       IN  /\ toolHistory' = Append(toolHistory, h.entry)
           /\ toolPc' = h.pc
           /\ toolResponse' = h.response
           /\ toolDrawn' = Append(toolDrawn, outcome)
    /\ UNCHANGED <<toolCall, toolAttempt, toolInitialized, toolWaits>>
    /\ UNCHANGED toolFrame

\* The backoff timer fires and the handler calls itself with attempt + 1
Backoff ==
    /\ toolPc = "backoff"
    /\ toolWaits' = Append(toolWaits, retryDelay(toolAttempt))
    /\ toolAttempt' = toolAttempt + 1
    /\ toolPc' = "attempt"
    /\ UNCHANGED <<toolCall, toolInitialized, toolHistory, toolResponse, toolDrawn>>
    /\ UNCHANGED toolFrame

ToolNext ==
    \/ \E transportOk \in BOOLEAN, outcome \in ToolOutcomes : Attempt(transportOk, outcome)
    \/ Backoff

ToolSpec == ToolInit /\ [][ToolNext]_vars

\* The operation the binding retries failed in attempt i
FailedAt(i) == i <= Len(toolHistory) /\ ~toolHistory[i].ok

\* C8: a retrying handler (a handle* method of MCPRestServer, and
\* MCPSSEServer.handleClientMessage) runs at most 3 times for one
\* invocation, having waited 1 s before attempt 2 and 2 s before attempt 3;
\* when attempts 1 and 2 fail and attempt 3 succeeds the result of attempt
\* 3 is what is returned, and when all 3 fail the error of attempt 3 is
\* the one surfaced.
C8_ThreeAttemptsWithBackoff ==
    toolCall.binding \in {"rest", "sse"} =>
        /\ Len(toolHistory) <= 3
        /\ toolAttempt <= 3
        /\ Len(toolHistory) \in {toolAttempt - 1, toolAttempt}
        /\ toolWaits = SubSeq(<<1000, 2000>>, 1, toolAttempt - 1)
        /\ (/\ toolPc = "done" /\ Len(toolHistory) = 3
            /\ FailedAt(1) /\ FailedAt(2) /\ ~FailedAt(3)) =>
               /\ toolResponse.kind \in {"bare", "content"}
               /\ toolResponse.at = 3
        /\ (/\ toolPc = "done"
            /\ FailedAt(1) /\ FailedAt(2) /\ FailedAt(3)
            /\ toolResponse.class # "advisory") =>
               /\ toolResponse.kind \in {"throw", "http500"}
               /\ toolResponse.error.at = 3
               /\ toolResponse.error.message = toolHistory[3].error.message

C8_Witness ==
    /\ toolCall.binding = "rest"
    /\ toolCall.tool = "text_to_audio"
    /\ toolPc = "done"
    /\ FailedAt(1) /\ FailedAt(2) /\ FailedAt(3)
    /\ toolWaits = <<1000, 2000>>
    /\ toolResponse.kind = "throw"
    /\ toolResponse.error.at = 3

\* The MiniMax API answered the last attempt with an identity-verification
\* marker
MarkerAnswered ==
    /\ toolHistory # <<>>
    /\ toolHistory[Len(toolHistory)].upstream \in
           {"voice clone user forbidden", "should complete real-name verification"}

\* C9: in every binding, a voice_clone attempt that fails with an
\* identity-verification marker ends the invocation at once with the
\* advisory response: no further attempt is made and no backoff elapses.
C9_MarkerGivesAdvisory ==
    (toolCall.tool = "voice_clone" /\ MarkerAnswered) =>
        /\ toolPc = "done"
        /\ toolResponse.kind = "content"
        /\ toolResponse.class = "advisory"
        /\ Len(toolWaits) = Len(toolHistory) - 1

\* The tool handler of the invocation has run: in the sse binding the
\* transport handed it the message
HandlerRan ==
    /\ toolHistory # <<>>
    /\ toolCall.binding = "sse" => toolHistory[Len(toolHistory)].ok

\* C10: every tool invocation whose handler ran, in every binding, ends by
\* handing a content payload to the transport: never a bare value, never a
\* thrown error.
C10_AlwaysContentPayload ==
    (toolPc = "done" /\ HandlerRan) => toolResponse.kind = "content"

\* The text has `piece` in it
ContainsText(text, piece) == \E i \in 1..Len(text) : text[i] = piece

\* C11: when the submission returned task id t, the polls ended in Success
\* with a file id and the retrieval gave download URL u, the text of the
\* generate_video response contains both t and u.
C11_ResponseNamesTaskAndUrl ==
    (/\ videoResponse # <<>>
     /\ videoResult.kind = "return"
     /\ videoLast.status = "Success"
     /\ TruthyStr(videoDownloadUrl)) =>
        /\ ContainsText(videoResponse, videoTaskId)
        /\ ContainsText(videoResponse, videoDownloadUrl)

\* The sse transport threw in some attempt of the invocation
TransportFailed ==
    /\ toolCall.binding = "sse"
    /\ \E i \in 1..Len(toolHistory) : ~toolHistory[i].ok

\* C12: an invocation that ended in one of the stdio, REST and SSE
\* bindings would, for the same tool call and the same answers of the
\* MiniMax API, run the handler the same number of times and end with the
\* same class of outcome (success, advisory, failure) in each of the three.
C12_SameRetryPolicy ==
    (/\ toolPc = "done"
     /\ toolCall.binding \in {"stdio", "sse", "rest"}
     /\ ~TransportFailed) =>
        \A b \in {"stdio", "sse", "rest"} :
            invocation(toolInitialized, [toolCall EXCEPT !.binding = b], toolDrawn, 1)
                = [attempts |-> toolAttempt, class |-> toolResponse.class]

\* The first attempt of the invocation ended in a validation error
ValidationFailed ==
    /\ toolHistory # <<>>
    /\ toolHistory[1].error.message = "Missing required parameter: firstFrameImage"

\* C13: a validation error (here the missing firstFrameImage) ends the
\* invocation at once: the handler is not run again, no backoff elapses
\* and no request reaches the MiniMax API.
C13_ValidationEndsAtOnce ==
    ValidationFailed =>
        /\ toolPc = "done"
        /\ Len(toolHistory) = 1
        /\ toolAttempt = 1
        /\ toolWaits = <<>>
        /\ \A i \in 1..Len(toolHistory) : toolHistory[i].upstream = Undef

\* The message of the error generateVideo throws for the status Fail
TASK_FAILED == "Video generation task failed, task ID"

\* The attempts of the invocation in which a request reached the MiniMax API
Submitted == {i \in 1..Len(toolHistory) : toolHistory[i].upstream # Undef}

MONITOR_INTERVAL == 60000

inactiveThreshold == 5 * 60 * 1000

\* The sessions opened and the time watched in one run
MaxSessions == 2

MaxNow == 450000

\* The step of the clock: half the inactivity threshold, so that a session
\* is seen idle for less than, exactly and more than the threshold
TimeStep == inactiveThreshold \div 2

\* this.connections.has(sessionId)
hasConnection(connections, sessionId) ==
    \E i \in 1..Len(connections) : connections[i].sessionId = sessionId

\* this.connections.delete(sessionId)
deleteConnection(connections, sessionId) ==
    SelectSeq(connections, LAMBDA e : e.sessionId # sessionId)

\* connectionInfo.lastActivityTime = Date.now()
touchConnection(connections, sessionId, now) ==
    [i \in 1..Len(connections) |->
        IF connections[i].sessionId = sessionId
        THEN [connections[i] EXCEPT !.lastActivityTime = now]
        ELSE connections[i]]

\* [...this.connections.keys()]
sessionIdsOf(connections) == [i \in 1..Len(connections) |-> connections[i].sessionId]

\* The registry, the heartbeat timers and the close events tried
Registry == [connections |-> sseConnections, heartbeats |-> sseHeartbeats,
             notified |-> sseNotified, threw |-> FALSE, failed |-> {}]

\* closeConnection writing the close event before it clears the timer,
\* with no catch around the write
closeConnectionWriteUncaught(st, sessionId, writeOk) ==
    IF ~hasConnection(st.connections, sessionId) THEN st
    ELSE [connections |-> deleteConnection(st.connections, sessionId),
          heartbeats |-> IF writeOk THEN st.heartbeats \ {sessionId} ELSE st.heartbeats,
          notified |-> st.notified \cup {sessionId},
          threw |-> ~writeOk,
          failed |-> IF writeOk THEN st.failed ELSE st.failed \cup {sessionId}]

\* closeConnection(sessionId): clearInterval, then the write of the close
\* event in a try of its own whose catch swallows the error, then delete
\* in the finally
closeConnection(st, sessionId, writeOk) ==
    IF ~hasConnection(st.connections, sessionId) THEN st
    ELSE [connections |-> deleteConnection(st.connections, sessionId),
          heartbeats |-> st.heartbeats \ {sessionId},
          notified |-> st.notified \cup {sessionId},
          threw |-> st.threw,
          failed |-> IF writeOk THEN st.failed ELSE st.failed \cup {sessionId}]

\* The sweep that also closes a session idle for exactly the threshold
isInactiveAtThreshold(now, lastActivityTime) == now - lastActivityTime >= inactiveThreshold

\* inactiveDuration > inactiveThreshold
isInactive(now, lastActivityTime) == now - lastActivityTime > inactiveThreshold

RECURSIVE monitorFrom(_, _, _, _, _)

\* The sweep that walks the registry by position while it shrinks: the
\* entry that follows a removed one is passed over
RECURSIVE monitorFromSkipsAfterRemoval(_, _, _, _, _)
monitorFromSkipsAfterRemoval(st, entries, i, now, failing) ==
    IF i > Len(entries) THEN st
    ELSE IF isInactive(now, entries[i].lastActivityTime)
         THEN monitorFromSkipsAfterRemoval(
                  closeConnection(st, entries[i].sessionId,
                                  entries[i].sessionId \notin failing),
                  entries, i + 2, now, failing)
         ELSE monitorFromSkipsAfterRemoval(st, entries, i + 1, now, failing)

\* The body of the monitoring timer over the entries from position i on;
\* the writes to the sessions in `failing` throw
monitorFrom(st, entries, i, now, failing) ==
    IF i > Len(entries) THEN st
    ELSE monitorFrom(IF isInactive(now, entries[i].lastActivityTime)
                     THEN closeConnection(st, entries[i].sessionId,
                                          entries[i].sessionId \notin failing)
                     ELSE st,
                     entries, i + 1, now, failing)

\* The route that always takes the first session of the registry
postRouteFirstOnly(connections, query) ==
    IF Len(connections) > 0 THEN connections[1].sessionId ELSE 0

\* The route without the fallback to the first session
postRouteNamedOnly(connections, query) ==
    IF query # 0 /\ hasConnection(connections, query) THEN query ELSE 0

\* The session the POST route picks: the one named when it is registered,
\* else the first entry of the registry, else none (0)
postRoute(connections, query) ==
    IF query # 0 /\ hasConnection(connections, query) THEN query
    ELSE IF Len(connections) > 0 THEN connections[1].sessionId
    ELSE 0

Operation(op, session) == [NoOperation EXCEPT !.op = op, !.session = session]

\* start() has validated the configuration; the listen callback has set the
\* signal handlers and started the monitoring
SseInit ==
    /\ sseNow = 0
    /\ sseConnections = <<>>
    /\ sseHeartbeats = {}
    /\ sseRequests = {}
    /\ sseNextId = 1
    /\ sseMonitor = [running |-> TRUE, fired |-> 0]
    /\ ssePhase = "running"
    /\ sseShutdown = NoShutdown
    /\ sseNotified = {}
    /\ sseMessages = <<>>
    /\ sseLast = NoOperation
    /\ ssePending = {}
    /\ ConfigIdle
    /\ IndexIdle
    /\ VideoIdle
    /\ ToolIdle
    /\ McpIdle
    /\ QueryIdle
    /\ StartIdle
    /\ PlayIdle
    /\ CloneIdle

\* Time passes
Tick ==
    /\ ssePhase = "running"
    /\ sseNow + TimeStep <= MaxNow
    /\ sseNow' = sseNow + TimeStep
    /\ UNCHANGED <<sseConnections, sseHeartbeats, sseRequests, sseNextId, sseMonitor,
                   ssePhase, sseShutdown, sseNotified, sseMessages, sseLast>>
    /\ UNCHANGED ssePending
    /\ UNCHANGED sseFrame

\* GET /sse: the session is registered with its heartbeat timer and the
\* close listener of its request before mcpServer.connect is awaited; when
\* connect throws, the catch answers 500 and ends the response, and leaves
\* the registry and the timer as they are
Connect(connectOk) ==
    /\ ssePhase = "running"
    /\ sseNextId <= MaxSessions
    /\ sseConnections' = Append(sseConnections,
                                [sessionId |-> sseNextId, lastActivityTime |-> sseNow])
    /\ sseHeartbeats' = sseHeartbeats \cup {sseNextId}
    /\ sseRequests' = sseRequests \cup {sseNextId}
    /\ sseMessages' = Append(sseMessages, -1)
    /\ sseNextId' = sseNextId + 1
    /\ sseLast' = [Operation("connect", sseNextId) EXCEPT
                      !.answer = IF connectOk THEN "connected" ELSE "500"]
    /\ UNCHANGED <<sseNow, sseMonitor, ssePhase, sseShutdown, sseNotified>>
    /\ UNCHANGED ssePending
    /\ UNCHANGED sseFrame

\* The effect of calls of closeConnection on the state
Closed(st) ==
    /\ sseConnections' = st.connections
    /\ sseHeartbeats' = st.heartbeats
    /\ sseNotified' = st.notified

\* The record of an operation that called closeConnection
CloseOperation(op, session, st) ==
    [Operation(op, session) EXCEPT
        !.threw = st.threw,
        !.closed = {sseConnections[i].sessionId : i \in 1..Len(sseConnections)}
                   \ {st.connections[i].sessionId : i \in 1..Len(st.connections)},
        !.answer = IF op # "close" THEN Undef
                   ELSE IF ~hasConnection(sseConnections, session) THEN "absent"
                   ELSE IF session \in st.failed THEN "write failed"
                   ELSE "written"]

\* req.on('close'): the request of the session ended, by the client or
\* after res.end()
RequestClose(sessionId, writeOk) ==
    /\ ssePhase = "running"
    /\ sessionId \in sseRequests
    /\ sseRequests' = sseRequests \ {sessionId}
    /\ LET st == closeConnection(Registry, sessionId, writeOk)
       IN  /\ Closed(st)
           /\ sseLast' = CloseOperation("close", sessionId, st)
    /\ UNCHANGED <<sseNow, sseNextId, sseMonitor, ssePhase, sseShutdown, sseMessages>>
    /\ UNCHANGED ssePending
    /\ UNCHANGED sseFrame

\* The heartbeat whose failed write removes the session from the registry
\* and leaves its timer running
HeartbeatKeepsTimer(sessionId, writeOk) ==
    /\ ssePhase = "running"
    /\ sessionId \in sseHeartbeats
    /\ LET st == IF writeOk THEN Registry ELSE closeConnection(Registry, sessionId, FALSE)
       IN  /\ sseConnections' = st.connections
           /\ sseNotified' = st.notified
           /\ sseHeartbeats' = sseHeartbeats
           /\ sseLast' = IF writeOk THEN sseLast ELSE CloseOperation("close", sessionId, st)
    /\ UNCHANGED <<sseNow, sseRequests, sseNextId, sseMonitor, ssePhase, sseShutdown,
                   sseMessages>>
    /\ UNCHANGED ssePending
    /\ UNCHANGED sseFrame

\* The heartbeat timer of a session fires; a write that throws closes it
Heartbeat(sessionId, writeOk) ==
    /\ ssePhase = "running"
    /\ sessionId \in sseHeartbeats
    /\ LET st == IF writeOk THEN Registry ELSE closeConnection(Registry, sessionId, FALSE)
       IN  /\ Closed(st)
           /\ sseLast' = IF writeOk THEN sseLast ELSE CloseOperation("close", sessionId, st)
    /\ UNCHANGED <<sseNow, sseRequests, sseNextId, sseMonitor, ssePhase, sseShutdown,
                   sseMessages>>
    /\ UNCHANGED ssePending
    /\ UNCHANGED sseFrame

\* POST endpoint with ?sessionId=query (0: none given).  The activity time
\* is written before handleClientMessage is awaited and nothing after the
\* await touches the registry.
Post(query, transportOk) ==
    /\ ssePhase = "running"
    /\ LET by == postRoute(sseConnections, query)
       IN  /\ sseConnections' = touchConnection(sseConnections, by, sseNow)
           /\ sseMessages' = [i \in 1..Len(sseMessages) |->
                                 IF i = by THEN sseNow ELSE sseMessages[i]]
           /\ sseLast' = [Operation("post", by) EXCEPT
                             !.query = query, !.by = by,
                             !.answer = IF by = 0 THEN "No active SSE connections"
                                        ELSE IF transportOk THEN "handled"
                                        ELSE "transport error"]
    /\ UNCHANGED <<sseNow, sseHeartbeats, sseRequests, sseNextId, sseMonitor, ssePhase,
                   sseShutdown, sseNotified>>
    /\ UNCHANGED ssePending
    /\ UNCHANGED sseFrame

\* The monitoring timer fires, not before its interval has passed
Monitor(failing) ==
    /\ ssePhase = "running"
    /\ sseMonitor.running
    /\ sseNow - sseMonitor.fired >= MONITOR_INTERVAL
    /\ sseMonitor' = [sseMonitor EXCEPT !.fired = sseNow]
    /\ LET st == monitorFrom(Registry, sseConnections, 1, sseNow, failing)
       IN  /\ Closed(st)
           /\ sseLast' = CloseOperation("monitor", 0, st)
    /\ UNCHANGED <<sseNow, sseRequests, sseNextId, ssePhase, sseShutdown, sseMessages>>
    /\ UNCHANGED ssePending
    /\ UNCHANGED sseFrame

\* closeAllConnections leaving out the first session of the registry
SignalSkipsFirst(signal) ==
    /\ ssePhase = "running"
    /\ ssePhase' = "closing"
    /\ sseShutdown' = [signal |-> signal, sessionIds |-> sessionIdsOf(sseConnections),
                       todo |-> IF sseConnections = <<>> THEN <<>>
                                ELSE Tail(sessionIdsOf(sseConnections))]
    /\ sseLast' = Operation(signal, 0)
    /\ UNCHANGED <<sseNow, sseConnections, sseHeartbeats, sseRequests, sseNextId,
                   sseMonitor, sseNotified, sseMessages>>
    /\ UNCHANGED ssePending
    /\ UNCHANGED sseFrame

\* SIGTERM or SIGINT: closeAllConnections takes the session ids
Signal(signal) ==
    /\ ssePhase = "running"
    /\ ssePhase' = "closing"
    /\ sseShutdown' = [signal |-> signal, sessionIds |-> sessionIdsOf(sseConnections),
                       todo |-> sessionIdsOf(sseConnections)]
    /\ sseLast' = Operation(signal, 0)
    /\ UNCHANGED <<sseNow, sseConnections, sseHeartbeats, sseRequests, sseNextId,
                   sseMonitor, sseNotified, sseMessages>>
    /\ UNCHANGED ssePending
    /\ UNCHANGED sseFrame

\* closeAllConnections: the next closeConnection of its loop
CloseNext(writeOk) ==
    /\ ssePhase = "closing"
    /\ sseShutdown.todo # <<>>
    /\ LET st == closeConnection(Registry, Head(sseShutdown.todo), writeOk)
       IN  /\ Closed(st)
           /\ sseLast' = CloseOperation("close", Head(sseShutdown.todo), st)
    /\ sseShutdown' = [sseShutdown EXCEPT !.todo = Tail(@)]
    /\ UNCHANGED <<sseNow, sseRequests, sseNextId, sseMonitor, ssePhase, sseMessages>>
    /\ UNCHANGED ssePending
    /\ UNCHANGED sseFrame

\* closeAllConnections: this.connections.clear() after the loop
ClearConnections ==
    /\ ssePhase = "closing"
    /\ sseShutdown.todo = <<>>
    /\ sseConnections' = <<>>
    /\ ssePhase' = "stopping"
    /\ sseLast' = Operation("clear", 0)
    /\ UNCHANGED <<sseNow, sseHeartbeats, sseRequests, sseNextId, sseMonitor,
                   sseShutdown, sseNotified, sseMessages>>
    /\ UNCHANGED ssePending
    /\ UNCHANGED sseFrame

\* stopConnectionMonitoring()
StopMonitoring ==
    /\ ssePhase = "stopping"
    /\ sseMonitor' = [sseMonitor EXCEPT !.running = FALSE]
    /\ ssePhase' = "releasing"
    /\ sseLast' = Operation("stop", 0)
    /\ UNCHANGED <<sseNow, sseConnections, sseHeartbeats, sseRequests, sseNextId,
                   sseShutdown, sseNotified, sseMessages>>
    /\ UNCHANGED ssePending
    /\ UNCHANGED sseFrame

\* this.server.close(...)
ServerClose ==
    /\ ssePhase = "releasing"
    /\ ssePhase' = "closed"
    /\ sseLast' = Operation("server.close", 0)
    /\ UNCHANGED <<sseNow, sseConnections, sseHeartbeats, sseRequests, sseNextId,
                   sseMonitor, sseShutdown, sseNotified, sseMessages>>
    /\ UNCHANGED ssePending
    /\ UNCHANGED sseFrame

SseNext ==
    \/ Tick
    \/ \E connectOk \in BOOLEAN : Connect(connectOk)
    \/ \E sessionId \in 1..MaxSessions, writeOk \in BOOLEAN : RequestClose(sessionId, writeOk)
    \/ \E sessionId \in 1..MaxSessions, writeOk \in BOOLEAN : Heartbeat(sessionId, writeOk)
    \/ \E query \in 0..MaxSessions, transportOk \in BOOLEAN : Post(query, transportOk)
    \/ \E failing \in SUBSET (1..MaxSessions) : Monitor(failing)
    \/ \E signal \in {"SIGTERM", "SIGINT"} : Signal(signal)
    \/ \E writeOk \in BOOLEAN : CloseNext(writeOk)
    \/ ClearConnections
    \/ StopMonitoring
    \/ ServerClose

SseSpec == SseInit /\ [][SseNext]_vars

\* The shutdown steps run to completion once a signal handler has started
SseLiveSpec ==
    /\ SseInit
    /\ [][SseNext]_vars
    /\ WF_vars((\E writeOk \in BOOLEAN : CloseNext(writeOk))
               \/ ClearConnections \/ StopMonitoring \/ ServerClose)

\* POST endpoint with a tools/call message: routed as every message is;
\* the tool runs after the route has answered and its response is sent
\* later on the channel of the session that handled the message
PostToolCall(query) ==
    /\ ssePhase = "running"
    /\ postRoute(sseConnections, query) # 0
    /\ LET by == postRoute(sseConnections, query)
       IN  /\ sseConnections' = touchConnection(sseConnections, by, sseNow)
           /\ sseMessages' = [i \in 1..Len(sseMessages) |->
                                 IF i = by THEN sseNow ELSE sseMessages[i]]
           /\ ssePending' = ssePending \cup {by}
           /\ sseLast' = [Operation("invoke", by) EXCEPT
                             !.query = query, !.by = by, !.answer = "handled"]
    /\ UNCHANGED <<sseNow, sseHeartbeats, sseRequests, sseNextId, sseMonitor, ssePhase,
                   sseShutdown, sseNotified>>
    /\ UNCHANGED sseFrame

\* The tool invocation of a session ends: its response is written on the
\* channel of the session, which is there only while the session is
\* registered
SendResponse(sessionId) ==
    /\ ssePhase = "running"
    /\ sessionId \in ssePending
    /\ ssePending' = ssePending \ {sessionId}
    /\ sseLast' = [Operation("respond", sessionId) EXCEPT
                      !.answer = IF hasConnection(sseConnections, sessionId)
                                 THEN "delivered" ELSE "lost"]
    /\ UNCHANGED <<sseNow, sseConnections, sseHeartbeats, sseRequests, sseNextId,
                   sseMonitor, ssePhase, sseShutdown, sseNotified, sseMessages>>
    /\ UNCHANGED sseFrame

SseInvokeNext ==
    \/ SseNext
    \/ \E query \in 0..MaxSessions : PostToolCall(query)
    \/ \E sessionId \in 1..MaxSessions : SendResponse(sessionId)

SseInvokeSpec == SseInit /\ [][SseInvokeNext]_vars

\* Every tool invocation ends: the tools bound their retries and polls
SseInvokeLiveSpec ==
    /\ SseInit
    /\ [][SseInvokeNext]_vars
    /\ WF_vars(\E sessionId \in 1..MaxSessions : SendResponse(sessionId))

\* The entry of a registered session
connectionOf(connections, sessionId) ==
    connections[CHOOSE i \in 1..Len(connections) : connections[i].sessionId = sessionId]

\* C15: a firing of the monitoring timer removes a registered session if
\* and only if more than 5 minutes have passed since its last activity; a
\* session to which a message was routed less than 5 minutes before the
\* firing stays registered.
C15_MonitorRemovesIdleOnly ==
    [][\A failing \in SUBSET (1..MaxSessions) :
        Monitor(failing) =>
            \A i \in 1..Len(sseConnections) :
                LET e == sseConnections[i]
                IN  /\ ~hasConnection(sseConnections', e.sessionId)
                          <=> (sseNow - e.lastActivityTime > 5 * 60 * 1000)
                    /\ (/\ sseMessages[e.sessionId] >= 0
                        /\ sseNow - sseMessages[e.sessionId] < 5 * 60 * 1000) =>
                           hasConnection(sseConnections', e.sessionId)]_vars

C15_Witness ==
    /\ sseLast.op = "monitor"
    /\ sseLast.closed = {1}
    /\ hasConnection(sseConnections, 2)
    /\ sseMessages[2] >= 0
    /\ sseNow - connectionOf(sseConnections, 2).lastActivityTime = 5 * 60 * 1000

\* C16: closeConnection never throws; after it the session is not in the
\* registry and its heartbeat timer is cancelled, also when the write of
\* the close event failed; a call for a session that is not registered
\* changes nothing.
C16_CloseConnectionIdempotent ==
    /\ [](sseLast.op = "close" =>
            /\ ~sseLast.threw
            /\ ~hasConnection(sseConnections, sseLast.session)
            /\ sseLast.session \notin sseHeartbeats)
    /\ [][\A sessionId \in 1..MaxSessions, writeOk \in BOOLEAN :
            (/\ \/ RequestClose(sessionId, writeOk)
                \/ Heartbeat(sessionId, FALSE)
                \/ sseShutdown.todo # <<>> /\ Head(sseShutdown.todo) = sessionId
                   /\ CloseNext(writeOk)
             /\ ~hasConnection(sseConnections, sessionId)) =>
                UNCHANGED <<sseConnections, sseHeartbeats, sseNotified>>]_vars

C16_Witness ==
    /\ sseLast.op = "close"
    /\ sseLast.session = 1
    /\ sseLast.answer = "write failed"
    /\ sseLast.closed = {1}
    /\ 1 \in sseNotified
    /\ 1 \notin sseHeartbeats
    /\ hasConnection(sseConnections, 2)

\* C17: a posted message that names a registered session is handled on the
\* channel of that session, and of all sessions only that one has its
\* last-activity time refreshed.
C17_NamedSessionHandles ==
    [][\A query \in 1..MaxSessions, transportOk \in BOOLEAN :
        (Post(query, transportOk) /\ hasConnection(sseConnections, query)) =>
            /\ sseLast'.by = query
            /\ Len(sseConnections') = Len(sseConnections)
            /\ \A i \in 1..Len(sseConnections) :
                  /\ sseConnections'[i].sessionId = sseConnections[i].sessionId
                  /\ sseConnections'[i].lastActivityTime =
                        IF sseConnections[i].sessionId = query THEN sseNow
                        ELSE sseConnections[i].lastActivityTime]_vars

C17_Witness ==
    /\ sseLast.op = "post"
    /\ sseLast.query = 2
    /\ sseLast.by = 2
    /\ sseLast.answer = "handled"
    /\ Len(sseConnections) = 2
    /\ sseConnections[1].sessionId = 1
    /\ sseConnections[1].lastActivityTime < sseConnections[2].lastActivityTime
    /\ sseConnections[2].lastActivityTime = sseNow

\* C18: a posted message without a session id is handled by a registered
\* session when there is one; it is answered with the error 'No active SSE
\* connections', with no handler run, exactly when the registry is empty.
C18_NoSessionIdRouting ==
    [][\A transportOk \in BOOLEAN :
        Post(0, transportOk) =>
            /\ sseConnections # <<>> => hasConnection(sseConnections, sseLast'.by)
            /\ sseLast'.answer = "No active SSE connections" <=> sseConnections = <<>>
            /\ sseLast'.answer = "No active SSE connections" => sseLast'.by = 0]_vars

C18_Witness ==
    /\ sseLast.op = "post"
    /\ sseLast.query = 0
    /\ sseLast.by = 0
    /\ sseLast.answer = "No active SSE connections"
    /\ sseNextId = 3
    /\ sseConnections = <<>>

\* The sessions registered when the signal arrived
SessionsAtSignal ==
    {sseShutdown.sessionIds[i] : i \in 1..Len(sseShutdown.sessionIds)}

\* C19: after SIGTERM or SIGINT, by the time the HTTP listener is closed a
\* close event has been tried on every session that was registered, the
\* registry is empty and the monitoring timer is stopped; and the signal
\* handler does get there.
C19_ShutdownClosesAll ==
    /\ [](ssePhase \in {"releasing", "closed"} =>
            /\ sseConnections = <<>>
            /\ ~sseMonitor.running
            /\ sseHeartbeats = {}
            /\ SessionsAtSignal \subseteq sseNotified)
    /\ (ssePhase = "closing") ~> (ssePhase = "closed")

C19_Witness ==
    /\ ssePhase = "closed"
    /\ sseShutdown.signal = "SIGTERM"
    /\ SessionsAtSignal = {1, 2}
    /\ sseNotified = {1, 2}
    /\ sseLast.op = "server.close"

(***************************************************************************)
(* MCPServer (stdio): start, updateConfig and the tool callbacks, as far   *)
(* as the credential and the API host are concerned                        *)
(***************************************************************************)
ERROR_API_KEY_REQUIRED == "ERROR_API_KEY_REQUIRED"

ERROR_API_HOST_REQUIRED == "ERROR_API_HOST_REQUIRED"

\* MiniMaxAPI.post: the request goes out with the credential and the host
\* of the configuration the instance was built from; the instance does not
\* validate them, that is left to its caller
apiPost(api, tool) ==
    [tool |-> tool, outcome |-> "request", apiKey |-> api.apiKey, apiHost |-> api.apiHost]

\* start(): the two tests before startStdioServer
startThrows(config) ==
    IF ~TruthyStr(Get(config, "apiKey")) THEN ERROR_API_KEY_REQUIRED
    ELSE IF ~TruthyStr(Get(config, "apiHost")) THEN ERROR_API_HOST_REQUIRED
    ELSE Undef

\* updateConfig(newConfig) for a newConfig without server:
\* { ...this.config, ...newConfig }
mcpUpdateConfig(config, newConfig) == ObjectAssign(config, newConfig)

\* A tool callback of MCPServer up to its first request to the MiniMax API:
\* text_to_audio tests the credential and builds an API instance of its
\* own from this.config, play_audio calls no API, the others use the
\* instances of the server
mcpToolCallback(config, api, tool) ==
    IF tool = "play_audio"
    THEN [NoInvocation EXCEPT !.tool = tool, !.outcome = "local"]
    ELSE IF tool = "text_to_audio"
    THEN IF ~TruthyStr(Get(config, "apiKey"))
         THEN [tool |-> tool, outcome |-> "configuration error",
               apiKey |-> Get(config, "apiKey"), apiHost |-> Get(config, "apiHost")]
         ELSE apiPost(MiniMaxAPI(config), tool)
    ELSE apiPost(api, tool)

\* The configurations ConfigManager.getConfig can give the constructor: the
\* host has a default, the credential has none
McpConfigs ==
    {"apiKey" :> k @@ "apiHost" :> DEFAULT_API_HOST : k \in {Undef, "key-1"}}

\* The arguments of updateConfig
McpNewConfigs ==
    {EmptyObj}
    \cup {"apiKey" :> k : k \in {"", "key-2"}}
    \cup {"apiHost" :> h : h \in {"", "https://api.minimax.chat"}}
    \cup {"apiKey" :> k @@ "apiHost" :> h :
            k \in {"", "key-2"}, h \in {"", "https://api.minimax.chat"}}

McpInit ==
    /\ mcpPhase = "constructed"
    /\ mcpConfig \in McpConfigs
    /\ mcpApi = MiniMaxAPI(mcpConfig)
    /\ mcpLast = NoInvocation
    /\ ConfigIdle
    /\ IndexIdle
    /\ VideoIdle
    /\ ToolIdle
    /\ SseIdle
    /\ QueryIdle
    /\ StartIdle
    /\ PlayIdle
    /\ CloneIdle

McpStart ==
    /\ mcpPhase = "constructed"
    /\ mcpPhase' = IF startThrows(mcpConfig) = Undef THEN "started" ELSE "failed"
    /\ UNCHANGED <<mcpConfig, mcpApi, mcpLast>>
    /\ UNCHANGED mcpFrame

\* updateConfig(newConfig): the configuration is merged and the API
\* instances are built again from it
McpUpdateConfig(newConfig) ==
    /\ mcpPhase \in {"constructed", "started"}
    /\ mcpConfig' = mcpUpdateConfig(mcpConfig, newConfig)
    /\ mcpApi' = MiniMaxAPI(mcpUpdateConfig(mcpConfig, newConfig))
    /\ UNCHANGED <<mcpPhase, mcpLast>>
    /\ UNCHANGED mcpFrame

\* A client invokes a tool of the started server
McpInvoke(tool) ==
    /\ mcpPhase = "started"
    /\ mcpLast' = mcpToolCallback(mcpConfig, mcpApi, tool)
    /\ UNCHANGED <<mcpPhase, mcpConfig, mcpApi>>
    /\ UNCHANGED mcpFrame

McpNext ==
    \/ McpStart
    \/ \E newConfig \in McpNewConfigs : McpUpdateConfig(newConfig)
    \/ \E tool \in IndexTools \cup {"image_to_video"} : McpInvoke(tool)

McpSpec == McpInit /\ [][McpNext]_vars

\* C20: after any sequence of start, updateConfig and tool invocations, no
\* request goes to the MiniMax API with an empty credential or an empty
\* host: an invocation made while either is empty ends with a
\* configuration error and sends nothing.
C20_NoCallWithoutCredential ==
    (/\ mcpLast.tool \notin {"none", "play_audio"}
     /\ ~(TruthyStr(mcpLast.apiKey) /\ TruthyStr(mcpLast.apiHost))) =>
        mcpLast.outcome = "configuration error"

\* C21: with asyncMode requested, generateVideo returns the task id as soon
\* as the submission has returned it: no status query, no wait, no file
\* retrieval and no download is made.
C21_AsyncReturnsAfterSubmit ==
    videoRequest.asyncMode =>
        /\ videoCalls.query = 0 /\ videoCalls.retrieve = 0 /\ videoCalls.download = 0
        /\ videoSleeps.count = 0
        /\ (videoCalls.submit = 1 /\ TruthyStr(videoTaskId)) =>
              /\ videoPc = "done"
              /\ videoResult = Return(videoTaskId, Undef, Undef)

C21_Witness ==
    /\ videoRequest.asyncMode
    /\ videoCalls.submit = 1
    /\ videoTaskId = "task-2"
    /\ videoPc = "done"
    /\ videoResult = Return("task-2", Undef, Undef)

(***************************************************************************)
(* VideoAPI.queryVideoGeneration: one status query of a task submitted     *)
(* earlier and, on Success, the retrieval and delivery of its file.        *)
(***************************************************************************)
MaxQueries == 2

\* `throw new MinimaxRequestError(...)` in queryVideoGeneration
QueryThrow(message, id) ==
    [kind |-> "throw", message |-> message, id |-> id, status |-> Undef,
     task_id |-> Undef, video_url |-> Undef, video_path |-> Undef]

\* `return { status, video_url, video_path, task_id }`
QueryReturn(status, task_id, video_url, video_path) ==
    [kind |-> "return", message |-> Undef, id |-> Undef, status |-> status,
     task_id |-> task_id, video_url |-> video_url, video_path |-> video_path]

\* An error thrown by this.api.get leaves queryVideoGeneration as it is
queryRethrow(thrown) ==
    IF thrown = "MinimaxRequestError"
    THEN QueryThrow("upstream request error", Undef)
    ELSE QueryThrow("upstream error", Undef)

\* A Fail is reported back like a status still in progress
queryStatusResultFailReported(statusResponse, taskId) ==
    IF statusResponse.thrown # Undef
    THEN queryRethrow(statusResponse.thrown)
    ELSE IF statusResponse.status = "Success"
    THEN IF ~TruthyStr(statusResponse.file_id)
         THEN QueryThrow("File ID missing in success response, task ID", taskId)
         ELSE NoResult
    ELSE QueryReturn(statusResponse.status, Undef, Undef, Undef)

\* Step 1 of queryVideoGeneration on the response of the status query;
\* NoResult when it goes on to the retrieval
queryStatusResult(statusResponse, taskId) ==
    IF statusResponse.thrown # Undef
    THEN queryRethrow(statusResponse.thrown)
    ELSE IF statusResponse.status = "Fail"
    THEN QueryThrow("Video generation task failed, task ID", taskId)
    ELSE IF statusResponse.status = "Success"
    THEN IF ~TruthyStr(statusResponse.file_id)
         THEN QueryThrow("File ID missing in success response, task ID", taskId)
         ELSE NoResult
    ELSE QueryReturn(statusResponse.status, Undef, Undef, Undef)

\* Step 2 on the response of /v1/files/retrieve; NoResult when it goes on
\* to the download
queryRetrieveResult(fileResponse, status, taskId, fileId, resourceMode) ==
    IF fileResponse.thrown # Undef
    THEN queryRethrow(fileResponse.thrown)
    ELSE IF ~TruthyStr(fileResponse.download_url)
    THEN QueryThrow("Unable to get download URL for file ID", fileId)
    ELSE IF resourceMode = RESOURCE_MODE_URL
    THEN QueryReturn(status, taskId, fileResponse.download_url, Undef)
    ELSE NoResult

\* Step 3: the download and the write of the file
queryDownloadResult(ok, status, taskId) ==
    IF ok
    THEN QueryReturn(status, taskId, Undef, buildOutputFile(taskId))
    ELSE QueryThrow("Failed to download or save video", Undef)

QueryInit ==
    /\ qvMode \in {"url", "local"}
    /\ qvCount = 0
    /\ qvTaskId = Undef
    /\ qvPc = "idle"
    /\ qvLast = [thrown |-> Undef, status |-> Undef, file_id |-> Undef]
    /\ qvFile = NoFile
    /\ qvDownload = "none"
    /\ qvCalls = NoCalls
    /\ qvResult = NoResult
    /\ ConfigIdle
    /\ IndexIdle
    /\ VideoIdle
    /\ ToolIdle
    /\ SseIdle
    /\ McpIdle
    /\ StartIdle
    /\ PlayIdle
    /\ CloneIdle

\* queryVideoGeneration ends: it returns or throws
QvFinish(result) ==
    /\ qvPc' = "done"
    /\ qvResult' = result

\* A caller calls queryVideoGeneration({ taskId })
QvCall(taskId) ==
    /\ qvPc \in {"idle", "done"}
    /\ qvCount < MaxQueries
    /\ qvCount' = qvCount + 1
    /\ qvTaskId' = taskId
    /\ qvPc' = "status"
    /\ qvLast' = [thrown |-> Undef, status |-> Undef, file_id |-> Undef]
    /\ qvFile' = NoFile
    /\ qvDownload' = "none"
    /\ qvCalls' = NoCalls
    /\ qvResult' = NoResult
    /\ UNCHANGED qvMode
    /\ UNCHANGED queryFrame

\* The status query answers and step 1 branches on it
QvStatus(statusResponse) ==
    /\ qvPc = "status"
    /\ qvCalls' = [qvCalls EXCEPT !.query = @ + 1]
    /\ qvLast' = statusResponse
    /\ IF queryStatusResult(statusResponse, qvTaskId) # NoResult
       THEN QvFinish(queryStatusResult(statusResponse, qvTaskId))
       ELSE /\ qvPc' = "retrieve"
            /\ UNCHANGED qvResult
    /\ UNCHANGED <<qvMode, qvCount, qvTaskId, qvFile, qvDownload>>
    /\ UNCHANGED queryFrame

\* The file retrieval answers
QvRetrieve(fileResponse) ==
    /\ qvPc = "retrieve"
    /\ qvCalls' = [qvCalls EXCEPT !.retrieve = @ + 1]
    /\ qvFile' = fileResponse
    /\ IF queryRetrieveResult(fileResponse, qvLast.status, qvTaskId, qvLast.file_id,
                              qvMode) # NoResult
       THEN QvFinish(queryRetrieveResult(fileResponse, qvLast.status, qvTaskId,
                                         qvLast.file_id, qvMode))
       ELSE /\ qvPc' = "download"
            /\ UNCHANGED qvResult
    /\ UNCHANGED <<qvMode, qvCount, qvTaskId, qvLast, qvDownload>>
    /\ UNCHANGED queryFrame

\* The download and the write of the output file
QvDownload(ok) ==
    /\ qvPc = "download"
    /\ qvCalls' = [qvCalls EXCEPT !.download = @ + 1]
    /\ qvDownload' = IF ok THEN "ok" ELSE "failed"
    /\ QvFinish(queryDownloadResult(ok, qvLast.status, qvTaskId))
    /\ UNCHANGED <<qvMode, qvCount, qvTaskId, qvLast, qvFile>>
    /\ UNCHANGED queryFrame

QueryNext ==
    \/ \E taskId \in {"task-1", "task-2"} : QvCall(taskId)
    \/ \E statusResponse \in StatusResponses : QvStatus(statusResponse)
    \/ \E fileResponse \in FileResponses : QvRetrieve(fileResponse)
    \/ \E ok \in BOOLEAN : QvDownload(ok)

QuerySpec == QueryInit /\ [][QueryNext]_vars

\* What generateVideo's polling gives for the status response, the file
\* response and the download that the queryVideoGeneration call has seen
pollingOutcome ==
    IF pollResult(qvLast, qvTaskId) # NoResult
    THEN pollResult(qvLast, qvTaskId)
    ELSE IF retrieveResult(qvFile, qvTaskId, qvLast.file_id, qvMode) # NoResult
    THEN retrieveResult(qvFile, qvTaskId, qvLast.file_id, qvMode)
    ELSE downloadResult(qvDownload = "ok", qvTaskId)

\* The outcome of queryVideoGeneration without the status it echoes
withoutStatus(result) ==
    [f \in DOMAIN result \ {"status"} |-> result[f]]

MaxServes == 2

\* yargs option `mode`: the value given with --mode, else its default
yargsMode(args) ==
    IF TruthyStr(findCliArg(args, "mode"))
    THEN findCliArg(args, "mode")
    ELSE DEFAULT_TRANSPORT_MODE

\* The argument the CLI entry passes to startMiniMaxMCP
cliCustomConfig(args) == [server |-> [mode |-> yargsMode(args)]]

\* `config.server?.mode || DEFAULT_TRANSPORT_MODE` and the switch on it
serverClass(config) ==
    LET mode == IF HasServer(config)
                THEN OrStr(Get(config.server, "mode"), DEFAULT_TRANSPORT_MODE)
                ELSE DEFAULT_TRANSPORT_MODE
    IN  IF mode \in {TRANSPORT_MODE_REST, TRANSPORT_MODE_SSE} THEN mode
        ELSE TRANSPORT_MODE_STDIO

\* initializeConfig of MCPRestServer and of MCPSSEServer: the mode of the
\* class is written into the server sub-object
forceMode(config, mode) ==
    IF HasServer(config)
    THEN Put(config, "server", Put(config.server, "mode", mode))
    ELSE Put(config, "server", [mode |-> mode, port |-> DEFAULT_SERVER_PORT,
                                endpoint |-> DEFAULT_SERVER_ENDPOINT])

\* The constructor of the server class: this.config
initializeConfig(class, customConfig) ==
    IF class = TRANSPORT_MODE_STDIO
    THEN Delete(getConfig(customConfig, EmptyObj).config, "server")
    ELSE forceMode(getConfig(customConfig, EmptyObj).config, class)

\* getConfig(requestConfig, defaultConfig) as seen from its second
\* argument: Object.assign copies the reference of defaultConfig.server
\* into `config`, and the file, environment and command line layers then
\* write into that object
defaultConfigAfter(defaultConfig) ==
    IF HasServer(defaultConfig)
    THEN Put(defaultConfig, "server",
             LowerLayers(defaultConfig, cfgFile, env, argv).config.server)
    ELSE defaultConfig

\* The object that `server` of the configuration getConfig returns refers to
serverObjectOf(requestConfig, defaultConfig) ==
    IF HasServer(requestConfig) THEN "request"
    ELSE IF HasServer(defaultConfig) THEN "default"
    ELSE "fresh"

\* expandHomeDir: a leading ~/ is replaced by the home directory
expandHomeDir(filepath) ==
    IF filepath = "~/Desktop" THEN "/home/user/Desktop" ELSE filepath

\* buildOutputPath(dir): the base path is read from ConfigManager.getConfig()
\* without arguments; startsWith on an undefined base path is a TypeError
buildOutputPath(dir, mkdirOk) ==
    LET basePath == getConfig(EmptyObj, EmptyObj).config.basePath
    IN  IF basePath = Undef
        THEN [threw |-> "TypeError", path |-> <<>>]
        ELSE IF ~mkdirOk
        THEN [threw |-> "MinimaxResourceError", path |-> <<>>]
        ELSE [threw |-> Undef,
              path |-> IF TruthyStr(dir) THEN <<expandHomeDir(basePath), dir>>
                       ELSE <<expandHomeDir(basePath)>>]

\* MCPRestServer.getRequestConfig
getRequestConfig(request, config) ==
    getConfig(extractRequestConfig(request), config).config

\* The configuration a tool invocation works with: the REST server resolves
\* one per request, the stdio and SSE servers use this.config
invocationConfig(class, request, config) ==
    IF class = TRANSPORT_MODE_REST THEN getRequestConfig(request, config) ELSE config

(***************************************************************************)
(* Inputs: how the process is started and the requests it is sent          *)
(***************************************************************************)
StartSets == {{}, {"apiKey"}, {"basePath"}, {"port"}, {"mode"}, Fields}

CustomConfigs ==
    {EmptyObj,
     [apiKey |-> "custom-key"],
     [apiKey |-> "custom-key", basePath |-> "/custom/base", resourceMode |-> "local"],
     [apiKey |-> "custom-key", server |-> [mode |-> TRANSPORT_MODE_REST]],
     [apiKey |-> "custom-key", server |-> [mode |-> TRANSPORT_MODE_SSE, port |-> "3005"]]}

Entries ==
    {[kind |-> "cli", customConfig |-> EmptyObj]}
    \cup {[kind |-> "api", customConfig |-> c] : c \in CustomConfigs}

StartRequests ==
    {[hasAuth |-> FALSE, auth |-> EmptyObj]}
    \cup {[hasAuth |-> TRUE, auth |-> AuthOf(S, FALSE)] :
            S \in {{"apiHost"}, {"basePath"}, {"port"}}}

StartInit ==
    /\ env \in {EnvOf(S) : S \in StartSets}
    /\ argv \in {ArgvOf(S, FALSE) : S \in StartSets}
    /\ cfgFile \in {[status |-> "absent", content |-> EmptyObj],
                    [status |-> "valid", content |-> FileObjOf({"mode"})],
                    [status |-> "valid", content |-> FileObjOf(Fields)]}
    /\ resolved = [done |-> FALSE, request |-> [hasAuth |-> FALSE, auth |-> EmptyObj],
                   threw |-> FALSE, config |-> EmptyObj]
    /\ runEntry \in Entries
    /\ runPhase = "boot"
    /\ runClass = "none"
    /\ runStarted = EmptyObj
    /\ runConfig = EmptyObj
    /\ runCount = 0
    /\ runLast = NoServe
    /\ IndexIdle
    /\ VideoIdle
    /\ ToolIdle
    /\ SseIdle
    /\ McpIdle
    /\ QueryIdle
    /\ PlayIdle
    /\ CloneIdle

\* What startMiniMaxMCP is called with
customConfigOf(entry) ==
    IF entry.kind = "cli" THEN cliCustomConfig(argv) ELSE entry.customConfig

\* startMiniMaxMCP(customConfig): resolve, construct, start; the process
\* exits when start() throws
StartMiniMaxMCP ==
    /\ runPhase = "boot"
    /\ runStarted' = getConfig(customConfigOf(runEntry), EmptyObj).config
    /\ runClass' = serverClass(runStarted')
    /\ runConfig' = initializeConfig(runClass', runStarted')
    /\ runPhase' = IF startThrows(runConfig') = Undef THEN "serving" ELSE "exited"
    /\ UNCHANGED <<runEntry, runCount, runLast>>
    /\ UNCHANGED startFrame

\* The server serves one tool invocation: the configuration it works with
\* and the output path buildOutputPath gives to its delivery
Serve(request, mkdirOk) ==
    /\ runPhase = "serving"
    /\ runCount < MaxServes
    /\ runCount' = runCount + 1
    /\ runLast' = [request |-> request,
                   config |-> invocationConfig(runClass, request, runConfig),
                   serverOf |-> IF runClass = TRANSPORT_MODE_REST
                                THEN serverObjectOf(extractRequestConfig(request), runConfig)
                                ELSE "none",
                   output |-> buildOutputPath(Undef, mkdirOk)]
    /\ runConfig' = IF runClass = TRANSPORT_MODE_REST
                    THEN defaultConfigAfter(runConfig)
                    ELSE runConfig
    /\ UNCHANGED <<runEntry, runPhase, runClass, runStarted>>
    /\ UNCHANGED startFrame

StartNext ==
    \/ StartMiniMaxMCP
    \/ \E request \in StartRequests, mkdirOk \in BOOLEAN : Serve(request, mkdirOk)

StartSpec == StartInit /\ [][StartNext]_vars

\* C23: every top-level field of the configuration passed to
\* startMiniMaxMCP is the value the server holds, and the value every
\* invocation it serves works with unless the request itself defines the
\* field: the command line and the environment never override it.
C23_CustomConfigWins ==
    \A k \in DOMAIN customConfigOf(runEntry) \ {"server"} :
        /\ runPhase \in {"serving", "exited"} =>
              Get(runConfig, k) = customConfigOf(runEntry)[k]
        /\ (runCount > 0 /\ ~RequestDefines(runLast.request, k)) =>
              Get(runLast.config, k) = customConfigOf(runEntry)[k]

\* C24: a REST invocation whose meta.auth gives base_path and whose
\* delivery mode is local builds its output path under that base path.
C24_RequestBasePathUsed ==
    (/\ runCount > 0
     /\ runClass = TRANSPORT_MODE_REST
     /\ RequestDefines(runLast.request, "basePath")
     /\ runLast.config.resourceMode = "local"
     /\ runLast.output.threw # "MinimaxResourceError") =>
        runLast.output =
            [threw |-> Undef, path |-> <<RequestValue(runLast.request, "basePath")>>]

\* os.homedir() joined with Desktop
DesktopPath == "/home/user/Desktop"

\* No layer of the invocation defines a base path
NoBasePath ==
    /\ ~Has(customConfigOf(runEntry), "basePath")
    /\ ~RequestDefines(runLast.request, "basePath")
    /\ ~CliDefines("basePath") /\ ~EnvDefines("basePath") /\ ~FileDefines("basePath")

\* C25: when no layer defines a base path, the base path of an invocation
\* is the desktop directory of the user, and building an output path does
\* not fail for want of a base path.
C25_DesktopByDefault ==
    (runCount > 0 /\ NoBasePath) =>
        /\ Get(runLast.config, "basePath") = DesktopPath
        /\ runLast.output.threw # "TypeError"
        /\ runLast.output.threw = Undef => runLast.output.path = <<DesktopPath>>

\* C27: when the configuration passed to startMiniMaxMCP defines only some
\* sub-fields of server, every other sub-field of the resolved server has
\* the value of the highest lower layer that defines it: started from the
\* command line with --port P, or with a port in the environment, the
\* resolved server.port is P.
C27_ServerSubFieldsKept ==
    (runPhase \in {"serving", "exited"} /\ HasServer(customConfigOf(runEntry))) =>
        \A f \in ServerFields \ DOMAIN customConfigOf(runEntry).server :
            FieldOf(runStarted, f) = LowerExpected(f)

\* C28: started from the command line without --mode, the server class is
\* the one of the mode that the highest layer defining a mode gives
\* (environment over configuration file), and the default one only when no
\* layer defines a mode.
C28_ModeFromHighestLayer ==
    (/\ runPhase \in {"serving", "exited"}
     /\ runEntry.kind = "cli"
     /\ ~CliDefines("mode")) =>
        runClass = LowerExpected("mode")

\* C29: serving invocations never changes the configuration the REST server
\* holds, whose server.mode stays rest, and the configuration of an
\* invocation does not hold the server sub-object of the stored one.
C29_StoredConfigUntouched ==
    (runPhase = "serving" /\ runClass = TRANSPORT_MODE_REST) =>
        /\ runConfig = initializeConfig(TRANSPORT_MODE_REST, runStarted)
        /\ runConfig.server.mode = TRANSPORT_MODE_REST
        /\ runLast.serverOf # "default"

\* C26: when generate_video or image_to_video is given an outputFile and
\* the delivery mode is local, the video that generateVideo saves is at
\* the path named by outputFile.
C26_SavedAtOutputFile ==
    (/\ videoRequest.outputFile = "/out/clip.mp4"
     /\ videoRequest.resourceMode = "local"
     /\ videoPc = "done"
     /\ videoResult.kind = "return"
     /\ videoCalls.download = 1) =>
        videoResult.video_path = videoRequest.outputFile

\* meta.auth of the request gives a value for the top-level field f
AuthGives(request, f) ==
    /\ request.hasAuth
    /\ \/ TruthyStr(Get(request.auth, AuthUnder(f)))
       \/ TruthyStr(Get(request.auth, AuthCamel(f)))

\* C30: in index.ts, a tool invocation changes only those fields of the
\* module-level configuration that its meta.auth defines: every field it
\* leaves undefined keeps the value it had, so no request blanks the API
\* key, the host, the base path or the resource mode.
C30_OnlyGivenFieldsChange ==
    [][\A slot \in Slots :
          (inflight[slot] = NoCall /\ inflight'[slot] # NoCall) =>
              \A f \in ScalarFields :
                  ~AuthGives(inflight'[slot].request, f) =>
                      Get(indexConfig', f) = Get(indexConfig, f)]_vars

\* C31: the MediaService that a REST tool call uses has been initialized
\* when its operation is invoked, so a call whose parameters are valid and
\* whose upstream request succeeds returns the upstream result on its
\* first attempt.
C31_RestServiceInitialized ==
    (/\ toolCall.binding = "rest"
     /\ toolCall.tool # "play_audio"
     /\ toolCall.firstFrameImage
     /\ Len(toolDrawn) >= 1
     /\ toolDrawn[1].ok) =>
        /\ toolInitialized
        /\ toolHistory[1] = Resolved(toolDrawn[1].message)
        /\ toolPc = "done"
        /\ toolResponse.class = "success"
        /\ toolResponse.at = 1

\* C32: the upstream calls of generateVideo come in the order submission,
\* status queries, file retrieval, download.  The file is retrieved at
\* most once and only after a status query answered Success with a file
\* id; the video is downloaded and written only when the resource mode is
\* not url, and in url mode the download URL is returned with nothing
\* downloaded or written.
C32_CallOrder ==
    /\ videoCalls.submit <= 1
    /\ videoCalls.query >= 1 => videoCalls.submit = 1
    /\ videoCalls.retrieve <= 1
    /\ videoCalls.retrieve = 1 =>
          /\ videoCalls.query >= 1
          /\ videoLast.status = "Success"
          /\ TruthyStr(videoLast.file_id)
          /\ videoFileId = videoLast.file_id
    /\ videoCalls.download <= 1
    /\ videoCalls.download = 1 =>
          /\ videoCalls.retrieve = 1
          /\ TruthyStr(videoDownloadUrl)
          /\ videoRequest.resourceMode # RESOURCE_MODE_URL
    /\ (/\ videoRequest.resourceMode = RESOURCE_MODE_URL
        /\ videoCalls.retrieve = 1
        /\ TruthyStr(videoDownloadUrl)) =>
          /\ videoPc = "done"
          /\ videoCalls.download = 0
          /\ videoResult = Return(videoTaskId, videoDownloadUrl, Undef)

C32_Witness ==
    /\ videoRequest.resourceMode = RESOURCE_MODE_URL
    /\ videoCalls = [submit |-> 1, query |-> 2, retrieve |-> 1, download |-> 0]
    /\ videoPc = "done"
    /\ videoResult = Return(videoTaskId, "https://cdn/video.mp4", Undef)

\* C33: when the write of a heartbeat to the channel of a session fails,
\* that session is torn down at once: it is removed from the registry and
\* its heartbeat timer is cancelled; and a heartbeat timer runs only for
\* sessions that are in the registry, so no heartbeat is written later for
\* a session that is no longer registered.
C33_FailedHeartbeatTearsDown ==
    /\ [](\A sessionId \in sseHeartbeats : hasConnection(sseConnections, sessionId))
    /\ [][\A sessionId \in 1..MaxSessions :
            Heartbeat(sessionId, FALSE) =>
                /\ hasConnection(sseConnections, sessionId)
                /\ ~hasConnection(sseConnections', sessionId)
                /\ sessionId \notin sseHeartbeats'
                /\ sessionId \in sseNotified'
                /\ \A other \in 1..MaxSessions \ {sessionId} :
                      /\ hasConnection(sseConnections', other)
                            <=> hasConnection(sseConnections, other)
                      /\ other \in sseHeartbeats' <=> other \in sseHeartbeats]_vars

\* A heartbeat of session 2 failed while its request was still open and
\* session 1 stayed registered with its timer
C33_Witness ==
    /\ sseLast.op = "close"
    /\ sseLast.session = 2
    /\ sseLast.answer = "write failed"
    /\ 2 \in sseRequests
    /\ ~hasConnection(sseConnections, 2)
    /\ 2 \notin sseHeartbeats
    /\ hasConnection(sseConnections, 1)
    /\ 1 \in sseHeartbeats

\* C34: a posted message that names a session id which is not, or no
\* longer, in the registry is never handled on the channel of another
\* session and never refreshes the last-activity time of another session.
C34_UnknownSessionNotRerouted ==
    [][\A query \in 1..MaxSessions, transportOk \in BOOLEAN :
        (Post(query, transportOk) /\ ~hasConnection(sseConnections, query)) =>
            /\ sseLast'.by = 0
            /\ sseConnections' = sseConnections]_vars

\* The sessions of the registry
registered(connections) == {connections[i].sessionId : i \in 1..Len(connections)}

\* C36: in every reachable state the sessions whose heartbeat timer runs
\* are exactly the sessions in the registry; in particular, when
\* mcpServer.connect throws while a connection is established, no registry
\* entry and no heartbeat timer of that session are left behind.
C36_TimersMatchRegistry ==
    /\ sseHeartbeats = registered(sseConnections)
    /\ (sseLast.op = "connect" /\ sseLast.answer = "500") =>
           /\ ~hasConnection(sseConnections, sseLast.session)
           /\ sseLast.session \notin sseHeartbeats

\* C37: a monitoring sweep, which removes entries of the registry while it
\* iterates over it, interleaved with connects and disconnects, examines
\* every registered session and never corrupts the registry: every idle
\* session is torn down and every live session is kept, in the order of
\* the registry; a session is torn down only while it is registered, so
\* never twice; a removed session is never inserted again; and no session
\* id is registered twice.
C37_SweepKeepsRegistrySound ==
    /\ [](/\ \A i, j \in 1..Len(sseConnections) :
                sseConnections[i].sessionId = sseConnections[j].sessionId => i = j
          /\ \A sessionId \in sseNotified : ~hasConnection(sseConnections, sessionId))
    /\ [][/\ \A failing \in SUBSET (1..MaxSessions) :
                Monitor(failing) =>
                    /\ sseConnections' =
                          SelectSeq(sseConnections,
                                    LAMBDA e : ~(sseNow - e.lastActivityTime > 5 * 60 * 1000))
                    /\ sseNotified' \ sseNotified
                          = registered(sseConnections) \ registered(sseConnections')
                    /\ sseHeartbeats' = sseHeartbeats \ (sseNotified' \ sseNotified)
          /\ sseNotified' \ sseNotified \subseteq registered(sseConnections)
          /\ sseNotified \subseteq sseNotified'
          /\ registered(sseConnections') \ registered(sseConnections) \subseteq {sseNextId}
          /\ registered(sseConnections') \cap sseNotified = {}]_vars

\* One sweep removed two idle sessions that follow each other in the
\* registry, before the close events of their requests arrived
C37_Witness ==
    /\ sseLast.op = "monitor"
    /\ sseLast.closed = {1, 2}
    /\ sseConnections = <<>>
    /\ sseHeartbeats = {}
    /\ sseNotified = {1, 2}
    /\ sseRequests = {1, 2}

\* C35: a session on which a tool invocation is still in progress is not
\* torn down by the idle sweep; so for every invocation received on a
\* session that the client keeps open, the response is eventually
\* delivered on that session.
C35_BusySessionKept ==
    /\ [][\A failing \in SUBSET (1..MaxSessions) :
            Monitor(failing) =>
                \A sessionId \in ssePending :
                    hasConnection(sseConnections, sessionId) =>
                        hasConnection(sseConnections', sessionId)]_vars
    /\ \A sessionId \in 1..MaxSessions :
          (sessionId \in ssePending /\ hasConnection(sseConnections, sessionId))
              ~> \/ /\ sseLast.op = "respond"
                    /\ sseLast.session = sessionId
                    /\ sseLast.answer = "delivered"
                 \/ /\ sseLast.op = "close"
                    /\ sseLast.session = sessionId
                    /\ sseLast.answer # "absent"
                 \/ ssePhase # "running"

\* ---- play_audio: utils/audio.ts under the tool callback of the server ----

Platforms == {"darwin", "win32", "linux"}

PlayRequests == [inputFilePath : {"/music/a.mp3", "https://host/a.mp3"}, isUrl : BOOLEAN]

\* The exit codes of the player looked at: 0, and one that is not 0
ExitCodes == {0, 1}

\* The program spawned for the platform
playerCommand(platform) ==
    IF platform = "darwin" THEN "afplay"
    ELSE IF platform = "win32" THEN "powershell"
    ELSE "play"

\* fs.unlinkSync(tempFile): it throws when the file is not there, or when
\* the file system refuses
unlinkSync(temp, fsOk) ==
    IF temp = "present" /\ fsOk THEN [threw |-> FALSE, temp |-> "deleted"]
    ELSE [threw |-> TRUE, temp |-> temp]

\* resolve and reject of a promise: only the first one counts
settle(promise, state, value) ==
    IF promise.state = "pending" THEN [state |-> state, value |-> value] ELSE promise

\* The listener of 'close': the deletion is not in a try, so its exception
\* leaves the listener before resolve or reject
onClose(st, code, fsOk) ==
    LET u == unlinkSync(st.temp, fsOk)
    IN  IF u.threw THEN [st EXCEPT !.uncaught = TRUE]
        ELSE [temp |-> u.temp,
              promise |-> IF code = 0
                          THEN settle(st.promise, "resolved", "Successfully played audio")
                          ELSE settle(st.promise, "rejected",
                                      "Failed to play audio, error code"),
              uncaught |-> st.uncaught]

\* The listener of 'error': the deletion is in a try whose catch is empty
onError(st, fsOk) ==
    [temp |-> unlinkSync(st.temp, fsOk).temp,
     promise |-> settle(st.promise, "rejected", "Failed to start audio player"),
     uncaught |-> st.uncaught]

\* The tool callback around playAudio: the text it returns
playCallback(promise) ==
    IF promise.state = "resolved" THEN [class |-> "success", text |-> promise.value]
    ELSE [class |-> "failure", text |-> promise.value]

\* The results after a listener ran: the callback returns once, when the
\* promise it awaits is settled
resultsAfter(results, before, after) ==
    IF before.state = "pending" /\ after.state # "pending"
    THEN Append(results, playCallback(after))
    ELSE results

PlayInit ==
    /\ playRequest \in PlayRequests
    /\ playPlatform \in Platforms
    /\ playPc = "start"
    /\ playTemp = "none"
    /\ playPromise = NoPromise
    /\ playEvents = <<>>
    /\ playResults = <<>>
    /\ playProcess = "running"
    /\ ConfigIdle
    /\ IndexIdle
    /\ VideoIdle
    /\ ToolIdle
    /\ SseIdle
    /\ McpIdle
    /\ QueryIdle
    /\ StartIdle
    /\ CloneIdle

\* The download of the URL, or processInputFile and readFileSync; what
\* they throw is wrapped by the catch of playAudio
PlayLoad(readOk) ==
    /\ playProcess = "running"
    /\ playPc = "start"
    /\ IF readOk
       THEN /\ playPc' = "loaded"
            /\ UNCHANGED <<playPromise, playResults>>
       ELSE /\ playPc' = "done"
            /\ playPromise' = [state |-> "rejected",
                               value |-> IF playRequest.isUrl
                                         THEN "Failed to play audio: download"
                                         ELSE "Failed to play audio: read"]
            /\ playResults' = Append(playResults, playCallback(playPromise'))
    /\ UNCHANGED <<playRequest, playPlatform, playTemp, playEvents, playProcess>>
    /\ UNCHANGED playFrame

\* writeFileSync of the temporary file, the spawn of the player and the
\* return of the promise with its two listeners
PlaySpawn(writeOk) ==
    /\ playProcess = "running"
    /\ playPc = "loaded"
    /\ IF writeOk
       THEN /\ playPc' = "playing"
            /\ playTemp' = "present"
            /\ playPromise' = [state |-> "pending", value |-> playerCommand(playPlatform)]
            /\ UNCHANGED playResults
       ELSE /\ playPc' = "done"
            /\ playPromise' = [state |-> "rejected", value |-> "Failed to play audio: write"]
            /\ playResults' = Append(playResults, playCallback(playPromise'))
            /\ UNCHANGED playTemp
    /\ UNCHANGED <<playRequest, playPlatform, playEvents, playProcess>>
    /\ UNCHANGED playFrame

\* The listeners' state
Listeners == [temp |-> playTemp, promise |-> playPromise, uncaught |-> FALSE]

\* What a listener leaves: an exception that leaves a listener is an
\* uncaught exception of the process, for which the server has no handler
Listened(st) ==
    /\ playTemp' = st.temp
    /\ playPromise' = st.promise
    /\ playResults' = resultsAfter(playResults, playPromise, st.promise)
    /\ playProcess' = IF st.uncaught THEN "crashed" ELSE playProcess

\* The player emits 'error': it could not be spawned
PlayerError(fsOk) ==
    /\ playProcess = "running"
    /\ playPc = "playing"
    /\ playEvents = <<>>
    /\ playEvents' = <<"error">>
    /\ Listened(onError(Listeners, fsOk))
    /\ UNCHANGED <<playRequest, playPlatform, playPc>>
    /\ UNCHANGED playFrame

\* The player emits 'close', after it has run or after its 'error'
PlayerClose(code, fsOk) ==
    /\ playProcess = "running"
    /\ playPc = "playing"
    /\ playEvents' = Append(playEvents, "close")
    /\ playPc' = "closed"
    /\ Listened(onClose(Listeners, code, fsOk))
    /\ UNCHANGED <<playRequest, playPlatform>>
    /\ UNCHANGED playFrame

PlayNext ==
    \/ \E readOk \in BOOLEAN : PlayLoad(readOk)
    \/ \E writeOk \in BOOLEAN : PlaySpawn(writeOk)
    \/ \E fsOk \in BOOLEAN : PlayerError(fsOk)
    \/ \E code \in ExitCodes, fsOk \in BOOLEAN : PlayerClose(code, fsOk)

PlaySpec == PlayInit /\ [][PlayNext]_vars

\* C38: a failure to delete the temporary file after the playback, also in
\* the listener of 'close' that runs after the player emitted 'error',
\* never raises an unhandled exception: the server process keeps running,
\* and once the player has closed play_audio has ended with exactly one
\* result, a success or a failure.
C38_CleanupFailureHarmless ==
    /\ playProcess # "crashed"
    /\ Len(playResults) <= 1
    /\ playPc \in {"closed", "done"} =>
           /\ Len(playResults) = 1
           /\ playResults[1].class \in {"success", "failure"}

\* ---- voice_clone: VoiceCloneAPI.cloneVoice under the tool callback ----

CloneRequests == [audioFile : {Undef, "/voices/me.wav"}, voiceId : {Undef, "my-voice"},
                  isUrl : BOOLEAN, text : {Undef, "Hello"}]

ERROR_AUDIO_FILE_REQUIRED == "ERROR_AUDIO_FILE_REQUIRED"

DEFAULT_SPEECH_MODEL == "speech-02-hd"

\* What an upstream post answers: it throws, or the field looked for is
\* missing, or it is there
PostAnswers == {"threw", "missing", "given"}

\* The payload of the clone request: the demo text and the model go in
\* only when a text is given
clonePayloadOf(toolParams, fileId) ==
    LET base == Put(Put(EmptyObj, "file_id", fileId), "voice_id", toolParams.voiceId)
    IN  IF TruthyStr(toolParams.text)
        THEN Put(Put(base, "text", toolParams.text), "model", DEFAULT_SPEECH_MODEL)
        ELSE base

\* The tool callback of voice_clone: the text for what cloneVoice returned
cloneCallback(voiceId, demo) ==
    [class |-> "success", text |-> voiceId, demo |-> demo]

\* The tool callback of voice_clone: the text for what cloneVoice threw
cloneCallbackCatch(thrown) ==
    [class |-> "failure", text |-> thrown, demo |-> Undef]

\* The catch around the download and the write of the demo audio
demoCatch(voiceId) == cloneCallback(voiceId, Undef)

\* What cloneVoice returns for the clone response
cloneOutcome(voiceId, demoAudio, resourceMode) ==
    IF ~TruthyStr(demoAudio) THEN [pc |-> "done", result |-> cloneCallback(voiceId, Undef)]
    ELSE IF resourceMode = RESOURCE_MODE_URL
         THEN [pc |-> "done",
               result |-> [class |-> "success", text |-> demoAudio, demo |-> Undef]]
    ELSE [pc |-> "download", result |-> NoCloneResult]

CloneInit ==
    /\ cloneRequest \in CloneRequests
    /\ cloneMode \in {RESOURCE_MODE_URL, "local"}
    /\ clonePc = "start"
    /\ clonePayload = EmptyObj
    /\ cloneDemo = Undef
    /\ cloneDownload = "none"
    /\ cloneResult = NoCloneResult
    /\ ConfigIdle
    /\ IndexIdle
    /\ VideoIdle
    /\ ToolIdle
    /\ SseIdle
    /\ McpIdle
    /\ QueryIdle
    /\ StartIdle
    /\ PlayIdle

\* cloneVoice ends by throwing
CloneThrow(thrown) ==
    /\ clonePc' = "done"
    /\ cloneResult' = cloneCallbackCatch(thrown)
    /\ UNCHANGED <<cloneDemo, cloneDownload>>

\* The validation of the parameters
CloneValidate ==
    /\ clonePc = "start"
    /\ IF ~TruthyStr(cloneRequest.audioFile) THEN CloneThrow(ERROR_AUDIO_FILE_REQUIRED)
       ELSE IF ~TruthyStr(cloneRequest.voiceId) THEN CloneThrow("Voice ID is required")
       ELSE /\ clonePc' = "load"
            /\ UNCHANGED <<cloneDemo, cloneDownload, cloneResult>>
    /\ UNCHANGED <<cloneRequest, cloneMode>>
    /\ UNCHANGED clonePayload
    /\ UNCHANGED cloneFrame

\* Step 1: the audio file is fetched from its URL or read from the disk
CloneLoad(readOk) ==
    /\ clonePc = "load"
    /\ IF readOk
       THEN /\ clonePc' = "upload"
            /\ UNCHANGED <<cloneDemo, cloneDownload, cloneResult>>
       ELSE CloneThrow(IF cloneRequest.isUrl THEN "Failed to download audio from URL"
                       ELSE "Failed to read local file")
    /\ UNCHANGED <<cloneRequest, cloneMode>>
    /\ UNCHANGED clonePayload
    /\ UNCHANGED cloneFrame

\* Step 1: the upload and the file id of its response
CloneUpload(uploaded) ==
    /\ clonePc = "upload"
    /\ IF uploaded = "given"
       THEN /\ clonePc' = "clone"
            /\ UNCHANGED <<cloneDemo, cloneDownload, cloneResult>>
       ELSE CloneThrow(IF uploaded = "threw" THEN "upload failed"
                       ELSE "Failed to get file ID from upload response")
    /\ UNCHANGED <<cloneRequest, cloneMode>>
    /\ UNCHANGED clonePayload
    /\ UNCHANGED cloneFrame

\* Step 2: the clone request and the demo audio of its response
CloneVoice(cloned) ==
    /\ clonePc = "clone"
    /\ IF cloned = "threw"
       THEN CloneThrow("voice clone failed")
       ELSE LET demoAudio == IF cloned = "given" THEN "https://cdn/demo.wav" ELSE Undef
                next == cloneOutcome(cloneRequest.voiceId, demoAudio, cloneMode)
            IN  /\ cloneDemo' = demoAudio
                /\ clonePc' = next.pc
                /\ cloneResult' = next.result
                /\ UNCHANGED cloneDownload
    /\ UNCHANGED <<cloneRequest, cloneMode>>
    /\ clonePayload' = clonePayloadOf(cloneRequest, "file-1")
    /\ UNCHANGED cloneFrame

\* Step 3: the download of the demo audio and the write of the file
CloneDownload(getOk, writeOk) ==
    /\ clonePc = "download"
    /\ clonePc' = "done"
    /\ cloneDownload' = IF getOk /\ writeOk THEN "ok" ELSE "failed"
    /\ cloneResult' = IF getOk /\ writeOk
                      THEN cloneCallback(cloneRequest.voiceId, "/out/voice_clone.wav")
                      ELSE demoCatch(cloneRequest.voiceId)
    /\ UNCHANGED <<cloneRequest, cloneMode, cloneDemo>>
    /\ UNCHANGED clonePayload
    /\ UNCHANGED cloneFrame

CloneNext ==
    \/ CloneValidate
    \/ \E readOk \in BOOLEAN : CloneLoad(readOk)
    \/ \E uploaded \in PostAnswers : CloneUpload(uploaded)
    \/ \E cloned \in PostAnswers : CloneVoice(cloned)
    \/ \E getOk \in BOOLEAN, writeOk \in BOOLEAN : CloneDownload(getOk, writeOk)

CloneSpec == CloneInit /\ [][CloneNext]_vars

\* C39: in the local delivery mode, when the download or the write of the
\* demo audio of a voice clone fails, the caller gets an error, not the
\* result of a successful clone.
C39_DemoFailureSurfaced ==
    (cloneMode # RESOURCE_MODE_URL /\ cloneDownload = "failed") =>
        cloneResult.class = "failure"

====
